---- MODULE Spec2Model ----
(***************************************************************************)
(* Verification model of bedrock-ledger-consensus-continuity.              *)
(*                                                                         *)
(* Part I  : lib/worker/GossipPeer.js -- the peer reputation manager       *)
(*           (fail / success / delete) over the peers collection.          *)
(* Part II : the event DAG -- adding events and merging branches.          *)
(***************************************************************************)
EXTENDS Integers, FiniteSets, Sequences, TLC

(***************************************************************************)
(* Bounds of the model.                                                    *)
(***************************************************************************)
\* Date.now() ranges over 0..MaxTime
MaxTime == 1
\* consensusState.blockHeight ranges over 0..MaxBlockHeight
MaxBlockHeight == 1
\* at most MaxCalls fail()/success() calls are started in one behaviour
MaxCalls == 2
\* at most MaxConfigChanges configuration changes are accepted
MaxConfigChanges == 2
\* this.nodes.size of the gossip strategy ranges over 1..MaxNodeCount
MaxNodeCount == 4
\* the gossip strategy runs while this.gossipCounter < MaxGossipCounter
MaxGossipCounter == 5

(***************************************************************************)
(* Program constants (literals of GossipPeer.js).                          *)
(***************************************************************************)
\* the maximum reputation: Math.min(100, ...), "* 100", "/ 100"
MaxReputation == 100
\* if(peerCount >= 100): the untrusted-peer capacity of success()
MaxZeroPeers == 100
\* "the peers collection target capacity is 110 in total"
MaxPeers == 110

(***************************************************************************)
(* config['ledger-consensus-continuity'].gossip.backoff, in time units.    *)
(***************************************************************************)
minFailure == 1
maxFailure == 2
maxFailureGracePeriod == 1
minIdle == 1
maxIdle == 2
maxIdleGracePeriod == 100

\* the backoff configuration with these values
DefaultBackoff ==
  [minFailure |-> minFailure, maxFailure |-> maxFailure,
   maxFailureGracePeriod |-> maxFailureGracePeriod,
   minIdle |-> minIdle, maxIdle |-> maxIdle,
   maxIdleGracePeriod |-> maxIdleGracePeriod]

(***************************************************************************)
(* The peers the model follows individually.  The peers collection holds   *)
(* their rows plus otherZero rows of reputation 0 and otherPositive rows   *)
(* of positive reputation on which no call is made.                        *)
(***************************************************************************)
Peers == {"p1", "p2"}

\* the reputations a followed peer starts with
InitReputations == {0, 1, 100}

\* cursors handed to fail()/success(); "undefined" is the omitted argument
Cursors == {"null", "c1"}
FailCursors == {"undefined", "null", "c1"}

\* cursor.requiredBlockHeight
CursorHeight(c) == IF c = "c1" THEN 1 ELSE 0

Min(a, b) == IF a <= b THEN a ELSE b
Max(a, b) == IF a >= b THEN a ELSE b

\* Math.ceil(a / b) for a >= 0, b > 0
Ceil(a, b) == (a + b - 1) \div b

VARIABLES
  now,           \* Date.now()
  blockHeight,   \* worker.consensusState.blockHeight
  witnesses,     \* worker.consensusState.witnesses
  peer,          \* GossipPeer._peer, per followed peer
  deleted,       \* GossipPeer._deleted
  stored,        \* the row of the peers collection, per followed peer
  otherZero,     \* rows of other peers with reputation <= 0
  otherPositive, \* rows of other peers with reputation > 0
  call,          \* a success() call suspended at `await count`
  ncalls,        \* number of calls started
  events,        \* every event created so far; an event's hash is its index
  known,         \* the hashes in the events collection of each node
  consensus,     \* the hashes each node has marked as having consensus
  blocks,        \* the blocks of each node, by blockHeight + 1
  ledgerConfig,  \* the ledger configuration config.get reports, per node
  configEvents,  \* the accepted configuration changes, in consensus order
  applied,       \* how many of configEvents reached consensus, per node
  changeResult,  \* the outcome of the last config.change call
  localPeers,    \* the ledgerNodeIds a local peer was generated for
  answers,       \* how the url of each remote peer answers a request
  clientResult,  \* the outcome of the last call of the gossip client
  nodeCount,     \* this.nodes.size of the gossip strategy
  localNodeId,   \* parseInt(this.nodeId, 10)
  witnessPeers,  \* nodeIds of this.getWitnessPeers()
  gossipCounter, \* this.gossipCounter
  roundRobinWitness, \* the round-robin choice of the last run
  gossipSessions,    \* what the last run returned
  thrown,            \* the error the last run threw
  history,       \* the eventHashes of getHistory(), per node
  pc,            \* the step of the pipeline the node is to run next
  steps,         \* the steps of the current pipeline cycle, as completed
  mergeEvent,    \* the merge event created in the current cycle
  consensusInput, \* the history the last consensus step evaluated
  session,       \* the position of a gossip run between its sessions
  backoffConfig  \* config['ledger-consensus-continuity'].gossip.backoff

vars == <<now, blockHeight, witnesses, peer, deleted, stored,
          otherZero, otherPositive, call, ncalls, events, known,
          consensus, blocks, ledgerConfig, configEvents, applied,
          changeResult, localPeers, answers, clientResult, nodeCount, localNodeId, witnessPeers,
          gossipCounter, roundRobinWitness, gossipSessions, thrown,
          history, pc, steps, mergeEvent, consensusInput, session,
          backoffConfig>>

\* the state of the peer reputation manager, and the state of the event DAG
peerVars == <<now, blockHeight, witnesses, peer, deleted, stored,
              otherZero, otherPositive, call, ncalls>>
dagVars == <<events, known, consensus, blocks>>

\* the state of the configuration API, of the gossip client and of the
\* round-robin gossip strategy
configVars == <<ledgerConfig, configEvents, applied, changeResult>>
clientVars == <<localPeers, answers, clientResult>>
strategyVars == <<nodeCount, localNodeId, witnessPeers, gossipCounter,
                  roundRobinWitness, gossipSessions, thrown, history>>

\* the state of the simulator's pipeline, of a gossip run in progress, and
\* the backoff configuration
pipelineVars == <<pc, steps, mergeEvent, consensusInput>>
sessionVars == <<session>>
backoffVars == <<backoffConfig>>

NoFirstFailure == [present |-> FALSE, reputation |-> 0, time |-> 0]
NoIdle == [present |-> FALSE, time |-> 0, localBlockHeight |-> 0]

\* a peer record as created on discovery, with the given reputation
NewPeer(r) ==
  [reputation |-> r,
   sequence |-> 0,
   consecutiveFailures |-> 0,
   firstFailure |-> NoFirstFailure,
   idle |-> NoIdle,
   backoffUntil |-> 0,
   lastPullAt |-> 0,
   lastPullResult |-> "none",
   cursor |-> "null",
   requiredBlockHeight |-> 0]

NoRow == [present |-> FALSE, peer |-> NewPeer(0)]
Row(rec) == [present |-> TRUE, peer |-> rec]

NoCall == [pc |-> "none", isWitness |-> FALSE, blockHeight |-> 0,
           mergeEventsReceived |-> FALSE, cursor |-> "null", peerCount |-> 0]

(***************************************************************************)
(* The peers collection.                                                   *)
(***************************************************************************)
\* ledgerNode.peers.count({maxReputation}): rows with reputation <= max
PeersCount(st, zero, maxReputation) ==
  Cardinality({p \in Peers : st[p].present /\
                            st[p].peer.reputation <= maxReputation}) +
  (IF maxReputation >= 0 THEN zero ELSE 0)

\* total number of rows of the peers collection
PeersTotal(st, zero, positive) ==
  Cardinality({p \in Peers : st[p].present}) + zero + positive

\* _peers.delete: the row of the peer is removed
PeersDelete(st, p) == [st EXCEPT ![p] = NoRow]

\* _peers.update: the row of an existing peer is replaced
PeersUpdate(st, p, rec) ==
  IF st[p].present THEN [st EXCEPT ![p] = Row(rec)] ELSE st

\* FailStatus taking the snapshot of the reputation after the decrement
FailStatusSnapshotAfter(rec, t) ==
  LET r1 == [rec EXCEPT !.consecutiveFailures = @ + 1,
                        !.lastPullAt = t,
                        !.lastPullResult = "error",
                        !.idle = NoIdle]
  IN IF r1.consecutiveFailures = 1
     THEN [r1 EXCEPT !.firstFailure = [present |-> TRUE,
                                       reputation |-> rec.reputation - 1,
                                       time |-> t],
                     !.reputation = @ - 1]
     ELSE LET totalFailTime == t - r1.firstFailure.time
              points ==
                (totalFailTime \div backoffConfig.maxFailureGracePeriod) *
                MaxReputation
              startReputation == r1.firstFailure.reputation
          IN [r1 EXCEPT !.reputation =
                Min(startReputation - 1, startReputation - points)]

\* FailStatus without the points of the time spent failing
FailStatusFlat(rec, t) ==
  LET r1 == [rec EXCEPT !.consecutiveFailures = @ + 1,
                        !.lastPullAt = t,
                        !.lastPullResult = "error",
                        !.idle = NoIdle]
  IN IF r1.consecutiveFailures = 1
     THEN [r1 EXCEPT !.firstFailure = [present |-> TRUE,
                                       reputation |-> rec.reputation,
                                       time |-> t],
                     !.reputation = @ - 1]
     ELSE [r1 EXCEPT !.reputation = r1.firstFailure.reputation - 1]

\* FailStatus leaving status.idle
FailStatusKeepsIdle(rec, t) ==
  LET r1 == [rec EXCEPT !.consecutiveFailures = @ + 1,
                        !.lastPullAt = t,
                        !.lastPullResult = "error"]
  IN IF r1.consecutiveFailures = 1
     THEN [r1 EXCEPT !.firstFailure = [present |-> TRUE,
                                       reputation |-> rec.reputation,
                                       time |-> t],
                     !.reputation = @ - 1]
     ELSE LET totalFailTime == t - r1.firstFailure.time
              points ==
                (totalFailTime \div backoffConfig.maxFailureGracePeriod) *
                MaxReputation
              startReputation == r1.firstFailure.reputation
          IN [r1 EXCEPT !.reputation =
                Min(startReputation - 1, startReputation - points)]

(***************************************************************************)
(* GossipPeer.fail, lines 75-106: the status and reputation update of a    *)
(* non-fatal failure at time t.                                            *)
(***************************************************************************)
FailStatus(rec, t) ==
  LET r1 == [rec EXCEPT !.consecutiveFailures = @ + 1,
                        !.lastPullAt = t,
                        !.lastPullResult = "error",
                        !.idle = NoIdle]
  IN IF r1.consecutiveFailures = 1
     THEN [r1 EXCEPT !.firstFailure = [present |-> TRUE,
                                       reputation |-> rec.reputation,
                                       time |-> t],
                     !.reputation = @ - 1]
     ELSE LET totalFailTime == t - r1.firstFailure.time
              points ==
                (totalFailTime \div backoffConfig.maxFailureGracePeriod) *
                MaxReputation
              startReputation == r1.firstFailure.reputation
          IN [r1 EXCEPT !.reputation =
                Min(startReputation - 1, startReputation - points)]

\* FailPersist without the cap of the delay at maxFailure
FailPersistNoCap(r, t, cursor) ==
  [r EXCEPT !.reputation = IF @ < 0 THEN 0 ELSE @,
            !.backoffUntil =
               t + r.consecutiveFailures * backoffConfig.minFailure,
            !.cursor = @,
            !.requiredBlockHeight =
               IF cursor \notin {"undefined", "null"}
               THEN CursorHeight(cursor) ELSE @,
            !.sequence = @ + 1]

\* FailPersist storing the cursor of the call
FailPersistStoresCursor(r, t, cursor) ==
  [r EXCEPT !.reputation = IF @ < 0 THEN 0 ELSE @,
            !.backoffUntil =
               t + Min(backoffConfig.maxFailure,
                       r.consecutiveFailures * backoffConfig.minFailure),
            !.cursor = IF cursor # "undefined" THEN cursor ELSE @,
            !.requiredBlockHeight =
               IF cursor \notin {"undefined", "null"}
               THEN CursorHeight(cursor) ELSE @,
            !.sequence = @ + 1]

\* GossipPeer.fail, lines 115-134: the witness clamp, the backoff, the
\* cursor and the sequence of a failure that is persisted
FailPersist(r, t, cursor) ==
  [r EXCEPT !.reputation = IF @ < 0 THEN 0 ELSE @,
            !.backoffUntil =
               t + Min(backoffConfig.maxFailure,
                       r.consecutiveFailures * backoffConfig.minFailure),
            !.cursor = @,
            !.requiredBlockHeight =
               IF cursor \notin {"undefined", "null"}
               THEN CursorHeight(cursor) ELSE @,
            !.sequence = @ + 1]

\* SuccessStatus leaving the failure state as it is
SuccessStatusNoReset(rec, t, cursor) ==
  [rec EXCEPT !.backoffUntil = t,
              !.lastPullAt = t,
              !.lastPullResult = "success",
              !.cursor = cursor,
              !.requiredBlockHeight =
                 IF cursor # "null" THEN CursorHeight(cursor) ELSE @]

(***************************************************************************)
(* GossipPeer.success, lines 167-178: the status reset.                    *)
(***************************************************************************)
SuccessStatus(rec, t, cursor) ==
  [rec EXCEPT !.backoffUntil = t,
              !.lastPullAt = t,
              !.lastPullResult = "success",
              !.cursor = cursor,
              !.requiredBlockHeight =
                 IF cursor # "null" THEN CursorHeight(cursor) ELSE @,
              !.consecutiveFailures = 0,
              !.firstFailure = NoFirstFailure]

\* SuccessReputation without the cap of line 205
SuccessReputationNoCap(r1, t, height, mergeEventsReceived) ==
  IF mergeEventsReceived
  THEN [r1 EXCEPT !.reputation = @ + 1, !.idle = NoIdle]
  ELSE IF ~r1.idle.present
  THEN [r1 EXCEPT !.idle = [present |-> TRUE, time |-> t,
                            localBlockHeight |-> height]]
  ELSE [r1 EXCEPT !.idle.time = t]

\* SuccessReputation with a point for every floor(maxIdleGracePeriod / 100)
SuccessReputationFloor(r1, t, height, mergeEventsReceived) ==
  IF mergeEventsReceived
  THEN [r1 EXCEPT !.reputation = Min(MaxReputation, @ + 1),
                  !.idle = NoIdle]
  ELSE IF ~r1.idle.present
  THEN [r1 EXCEPT !.idle = [present |-> TRUE, time |-> t,
                            localBlockHeight |-> height]]
  ELSE IF r1.idle.localBlockHeight = height
  THEN [r1 EXCEPT !.idle.time = t]
  ELSE LET totalIdleTime == t - r1.idle.time
           timePerPoint == backoffConfig.maxIdleGracePeriod \div MaxReputation
           points == totalIdleTime \div timePerPoint
       IN [r1 EXCEPT !.reputation = @ - points,
                     !.idle.time = @ + points * timePerPoint,
                     !.idle.localBlockHeight = height,
                     !.backoffUntil =
                        @ + Min(backoffConfig.minIdle * Max(1, points),
                                backoffConfig.maxIdle)]

\* SuccessReputation leaving status.idle when merge events were received
SuccessReputationKeepsIdle(r1, t, height, mergeEventsReceived) ==
  IF mergeEventsReceived
  THEN [r1 EXCEPT !.reputation = Min(MaxReputation, @ + 1)]
  ELSE IF ~r1.idle.present
  THEN [r1 EXCEPT !.idle = [present |-> TRUE, time |-> t,
                            localBlockHeight |-> height]]
  ELSE IF r1.idle.localBlockHeight = height
  THEN [r1 EXCEPT !.idle.time = t]
  ELSE LET totalIdleTime == t - r1.idle.time
           timePerPoint ==
             Ceil(backoffConfig.maxIdleGracePeriod, MaxReputation)
           points == totalIdleTime \div timePerPoint
       IN [r1 EXCEPT !.reputation = @ - points,
                     !.idle.time = @ + points * timePerPoint,
                     !.idle.localBlockHeight = height,
                     !.backoffUntil =
                        @ + Min(backoffConfig.minIdle * Max(1, points),
                                backoffConfig.maxIdle)]

\* SuccessReputation without the test of the block height of line 213
SuccessReputationAlwaysPenalty(r1, t, height, mergeEventsReceived) ==
  IF mergeEventsReceived
  THEN [r1 EXCEPT !.reputation = Min(MaxReputation, @ + 1),
                  !.idle = NoIdle]
  ELSE IF ~r1.idle.present
  THEN [r1 EXCEPT !.idle = [present |-> TRUE, time |-> t,
                            localBlockHeight |-> height]]
  ELSE LET totalIdleTime == t - r1.idle.time
           timePerPoint ==
             Ceil(backoffConfig.maxIdleGracePeriod, MaxReputation)
           points == totalIdleTime \div timePerPoint
       IN [r1 EXCEPT !.reputation = @ - points,
                     !.idle.time = @ + points * timePerPoint,
                     !.idle.localBlockHeight = height,
                     !.backoffUntil =
                        @ + Min(backoffConfig.minIdle * Max(1, points),
                                backoffConfig.maxIdle)]

\* SuccessReputation setting idle.time to the time of the penalty
SuccessReputationIdleNow(r1, t, height, mergeEventsReceived) ==
  IF mergeEventsReceived
  THEN [r1 EXCEPT !.reputation = Min(MaxReputation, @ + 1),
                  !.idle = NoIdle]
  ELSE IF ~r1.idle.present
  THEN [r1 EXCEPT !.idle = [present |-> TRUE, time |-> t,
                            localBlockHeight |-> height]]
  ELSE IF r1.idle.localBlockHeight = height
  THEN [r1 EXCEPT !.idle.time = t]
  ELSE LET totalIdleTime == t - r1.idle.time
           timePerPoint ==
             Ceil(backoffConfig.maxIdleGracePeriod, MaxReputation)
           points == totalIdleTime \div timePerPoint
       IN [r1 EXCEPT !.reputation = @ - points,
                     !.idle.time = t,
                     !.idle.localBlockHeight = height,
                     !.backoffUntil =
                        @ + Min(backoffConfig.minIdle * Max(1, points),
                                backoffConfig.maxIdle)]

\* SuccessReputation adding the points of the idle penalty
SuccessReputationRewardsIdle(r1, t, height, mergeEventsReceived) ==
  IF mergeEventsReceived
  THEN [r1 EXCEPT !.reputation = Min(MaxReputation, @ + 1),
                  !.idle = NoIdle]
  ELSE IF ~r1.idle.present
  THEN [r1 EXCEPT !.idle = [present |-> TRUE, time |-> t,
                            localBlockHeight |-> height]]
  ELSE IF r1.idle.localBlockHeight = height
  THEN [r1 EXCEPT !.idle.time = t]
  ELSE LET totalIdleTime == t - r1.idle.time
           timePerPoint ==
             Ceil(backoffConfig.maxIdleGracePeriod, MaxReputation)
           points == totalIdleTime \div timePerPoint
       IN [r1 EXCEPT !.reputation = Min(MaxReputation, @ + points),
                     !.idle.time = @ + points * timePerPoint,
                     !.idle.localBlockHeight = height,
                     !.backoffUntil =
                        @ + Min(backoffConfig.minIdle * Max(1, points),
                                backoffConfig.maxIdle)]

\* GossipPeer.success, lines 203-226: the reputation and idle accounting
SuccessReputation(r1, t, height, mergeEventsReceived) ==
  IF mergeEventsReceived
  THEN [r1 EXCEPT !.reputation = Min(MaxReputation, @ + 1),
                  !.idle = NoIdle]
  ELSE IF ~r1.idle.present
  THEN [r1 EXCEPT !.idle = [present |-> TRUE, time |-> t,
                            localBlockHeight |-> height]]
  ELSE IF r1.idle.localBlockHeight = height
  THEN [r1 EXCEPT !.idle.time = t]
  ELSE LET totalIdleTime == t - r1.idle.time
           timePerPoint ==
             Ceil(backoffConfig.maxIdleGracePeriod, MaxReputation)
           points == totalIdleTime \div timePerPoint
       IN [r1 EXCEPT !.reputation = @ - points,
                     !.idle.time = @ + points * timePerPoint,
                     !.idle.localBlockHeight = height,
                     !.backoffUntil =
                        @ + Min(backoffConfig.minIdle * Max(1, points),
                                backoffConfig.maxIdle)]

\* the idle-penalty branch (line 216) is the one taken
IdlePenalty(rec, height, mergeEventsReceived) ==
  /\ ~mergeEventsReceived
  /\ rec.idle.present
  /\ rec.idle.localBlockHeight # height

\* FailDeletes without the witness test of line 109
FailDeletesAnyPeer(r, isWitness) == r.reputation < 0

\* GossipPeer.fail, lines 108-114: the failing peer is removed
FailDeletes(r, isWitness) == r.reputation < 0 /\ ~isWitness

\* SuccessDeletes removing no peer
SuccessDeletesNever(r2, penalty, isWitness) == FALSE

\* GossipPeer.success, lines 227-231: the idling peer is removed
SuccessDeletes(r2, penalty, isWitness) ==
  penalty /\ r2.reputation < 0 /\ ~isWitness

\* GossipPeer.success, line 147: the peer may be dropped for capacity
CapacityChecked(rec, isWitness) == ~isWitness /\ rec.reputation = 0

\* CapacityDrop with room for the peer at a count of 100
CapacityDropAbove(peerCount) == peerCount > MaxZeroPeers

\* GossipPeer.success, line 161: there is no room for the peer
CapacityDrop(peerCount) == peerCount >= MaxZeroPeers

(***************************************************************************)
(* Part II : the event DAG.  The events module is not part of the sources  *)
(* at hand; events, branch heads and merging are modelled after the        *)
(* specification and the expectations of test/mocha/10-api.js.             *)
(*                                                                         *)
(* Every node creates events under its own creator id.  The genesis merge  *)
(* event is created by the node that creates the ledger.                   *)
(***************************************************************************)
Nodes == {"n1", "n2", "n3"}
GenesisNode == "n1"

\* the hashes of the ledger configuration event and of the genesis merge
\* event, and the treeHash the two carry
ConfigHash == 1
GenesisHash == 2
NoHash == 0

ConfigEvent == [type |-> "config", creator |-> GenesisNode,
                treeHash |-> NoHash, parentHash |-> {}, mergeHeight |-> 0]

GenesisEvent == [type |-> "merge", creator |-> GenesisNode,
                 treeHash |-> NoHash, parentHash |-> {ConfigHash},
                 mergeHeight |-> 0]

\* a block hash stands for the content it is computed from
BlockHash(block) ==
  <<block.blockHeight, block.event, block.consensusProof,
    block.previousBlockHash>>

\* the genesis block without the genesis merge event
GenesisBlockConfigOnly == [blockHeight |-> 0, event |-> {ConfigHash},
                           consensusProof |-> {GenesisHash},
                           previousBlockHash |-> <<>>]

\* the genesis block: the ledger configuration event and the genesis merge
\* event, with the proof of the node that created the ledger
GenesisBlock == [blockHeight |-> 0, event |-> {ConfigHash, GenesisHash},
                 consensusProof |-> {GenesisHash},
                 previousBlockHash |-> <<>>]

\* every node starts from the genesis block
DagInit ==
  /\ events = <<ConfigEvent, GenesisEvent>>
  /\ known = [n \in Nodes |-> {ConfigHash, GenesisHash}]
  /\ consensus = [n \in Nodes |-> {ConfigHash, GenesisHash}]
  /\ blocks = [n \in Nodes |-> <<GenesisBlock>>]

(***************************************************************************)
(* The ledger configuration API and the gossip client before any call.     *)
(***************************************************************************)
\* mockData.ledgerConfiguration.ledger
LedgerId == "ledger"
ConsensusMethods == {"Continuity2017", "Continuity9000"}

\* the placeholder of a property a configuration does not have
Absent == "absent"

\* the configuration of the genesis block: sequence 0, no creator
GenesisConfig ==
  [present |-> {"ledger", "sequence"}, ledger |-> LedgerId,
   creator |-> Absent, sequence |-> 0, consensusMethod |-> "Continuity2017"]

NoError == [name |-> "none", properties |-> {}]
NoChange ==
  [called |-> FALSE, node |-> GenesisNode,
   ledgerConfiguration |-> GenesisConfig, error |-> NoError]

NoClientError ==
  [name |-> "none", httpStatusCode |-> 0, cause |-> {}, code |-> "none"]
NoClientCall ==
  [op |-> "none", ledgerNodeId |-> "none", remotePeer |-> "none",
   error |-> NoClientError]

ConfigInit ==
  /\ ledgerConfig = [n \in Nodes |-> GenesisConfig]
  /\ configEvents = <<>>
  /\ applied = [n \in Nodes |-> 0]
  /\ changeResult = NoChange

LedgerNodeIds == {"foo", "bar"}
RemotePeers == {"peer1", "peer2"}

\* what a request to a url meets: a refused connection, HTTP 404, success
Answers == {"ECONNREFUSED", "404", "200"}

\* any set of local peers and any answer of each remote peer
ClientInit ==
  /\ localPeers \in SUBSET LedgerNodeIds
  /\ answers \in [RemotePeers -> Answers]
  /\ clientResult = NoClientCall

\* the setup of 70-multinode.js: a local peer for ledger node foo, one url
\* that refuses the connection and one that answers
TestClient ==
  /\ localPeers = {"foo"}
  /\ answers = [r \in RemotePeers |->
                  IF r = "peer1" THEN "ECONNREFUSED" ELSE "200"]

(***************************************************************************)
(* The round-robin gossip strategy before its first run on a node: any     *)
(* number of nodes, any node as the local one, any witness peers.          *)
(***************************************************************************)
\* the value of this.gossipCounter before the first run
Undefined == -1

NodeIds(size) == 0..(size - 1)

StrategyInit ==
  /\ nodeCount \in 1..MaxNodeCount
  /\ localNodeId \in NodeIds(nodeCount)
  /\ witnessPeers \in SUBSET NodeIds(nodeCount)
  /\ gossipCounter = Undefined
  /\ roundRobinWitness = Undefined
  /\ gossipSessions = <<>>
  /\ thrown = "none"
  /\ history = [p \in NodeIds(MaxNodeCount) |-> {p}]

\* the network of the reference pipeline: every node is a witness
AllWitnesses ==
  /\ nodeCount = MaxNodeCount
  /\ localNodeId = 0
  /\ witnessPeers = NodeIds(MaxNodeCount)

(***************************************************************************)
(* Init: the state after the GossipPeers are constructed from rows of the  *)
(* peers collection.                                                       *)
(***************************************************************************)
PeerInit ==
  /\ now = 0
  /\ blockHeight = 0
  /\ witnesses \in SUBSET Peers
  /\ peer \in [Peers -> {NewPeer(r) : r \in InitReputations}]
  /\ deleted = [p \in Peers |-> FALSE]
  /\ stored = [p \in Peers |-> Row(peer[p])]
  /\ otherZero \in {0, MaxZeroPeers - 1}
  /\ otherPositive = MaxPeers - MaxZeroPeers - 1
  /\ PeersCount(stored, otherZero, 0) <= MaxZeroPeers
  /\ PeersTotal(stored, otherZero, otherPositive) <= MaxPeers
  /\ call = [p \in Peers |-> NoCall]
  /\ ncalls = 0

\* the pipeline of a node before its first cycle
PipelineInit ==
  /\ pc = "gossip"
  /\ steps = <<>>
  /\ mergeEvent = Undefined
  /\ consensusInput = {}

\* no gossip run is in progress
NoSession ==
  [pc |-> "none", inFlight |-> {}, gossipSessions |-> <<>>,
   notificationWitnesses |-> {}, notificationPeers |-> {},
   randomMergeCount |-> 0]

SessionInit == session = NoSession

\* what the nodes run besides the GossipPeers, before anything ran
IdleInit ==
  /\ DagInit /\ ConfigInit
  /\ PipelineInit /\ SessionInit

Init ==
  /\ PeerInit /\ backoffConfig = DefaultBackoff
  /\ IdleInit
  /\ TestClient /\ ClientInit
  /\ AllWitnesses /\ StrategyInit

\* GossipPeerDelete removing every row of the ledger node
GossipPeerDeleteAllRows(p) ==
  /\ stored' = IF deleted[p] THEN stored ELSE [q \in Peers |-> NoRow]
  /\ deleted' = [deleted EXCEPT ![p] = TRUE]

\* GossipPeerDelete setting the flag and leaving the row
GossipPeerDeleteFlagOnly(p) ==
  /\ stored' = stored
  /\ deleted' = [deleted EXCEPT ![p] = TRUE]

(***************************************************************************)
(* GossipPeer.delete, lines 40-47.                                         *)
(***************************************************************************)
GossipPeerDelete(p) ==
  /\ stored' = IF deleted[p] THEN stored ELSE PeersDelete(stored, p)
  /\ deleted' = [deleted EXCEPT ![p] = TRUE]

(***************************************************************************)
(* GossipPeer.fail, lines 65-137.                                          *)
(***************************************************************************)
Fail(p, cursor, fatal) ==
  /\ ncalls < MaxCalls
  /\ ncalls' = ncalls + 1
  /\ IF fatal
     THEN /\ GossipPeerDelete(p)
          /\ UNCHANGED peer
     ELSE LET r == FailStatus(peer[p], now)
              isWitness == p \in witnesses
          IN IF FailDeletes(r, isWitness)
             THEN /\ peer' = [peer EXCEPT ![p] = r]
                  /\ GossipPeerDelete(p)
             ELSE LET r2 == FailPersist(r, now, cursor)
                  IN /\ peer' = [peer EXCEPT ![p] = r2]
                     /\ stored' = PeersUpdate(stored, p, r2)
                     /\ UNCHANGED deleted
  /\ UNCHANGED <<now, blockHeight, witnesses, otherZero, otherPositive, call>>
  /\ UNCHANGED <<dagVars, configVars, clientVars, strategyVars,
               pipelineVars, sessionVars, backoffVars>>

(***************************************************************************)
(* GossipPeer.success, lines 167-241: what follows the capacity check.     *)
(***************************************************************************)
SuccessRest(p, isWitness, height, mergeEventsReceived, cursor) ==
  LET r1 == SuccessStatus(peer[p], now, cursor)
      r2 == SuccessReputation(r1, now, height, mergeEventsReceived)
      penalty == IdlePenalty(r1, height, mergeEventsReceived)
  IN IF SuccessDeletes(r2, penalty, isWitness)
     THEN /\ peer' = [peer EXCEPT ![p] = r2]
          /\ GossipPeerDelete(p)
     ELSE LET r3 == [r2 EXCEPT !.reputation =
                                   IF penalty /\ @ < 0 THEN 0 ELSE @,
                                !.sequence = @ + 1]
          IN /\ peer' = [peer EXCEPT ![p] = r3]
             /\ stored' = PeersUpdate(stored, p, r3)
             /\ UNCHANGED deleted

\* GossipPeer.success, lines 139-160: up to `await count(...)`
SuccessStart(p, mergeEventsReceived, cursor) ==
  /\ ncalls < MaxCalls
  /\ ncalls' = ncalls + 1
  /\ call[p].pc = "none"
  /\ LET isWitness == p \in witnesses
     IN IF CapacityChecked(peer[p], isWitness)
        THEN /\ call' = [call EXCEPT ![p] =
                  [pc |-> "count", isWitness |-> isWitness,
                   blockHeight |-> blockHeight,
                   mergeEventsReceived |-> mergeEventsReceived,
                   cursor |-> cursor,
                   peerCount |-> PeersCount(stored, otherZero, 0)]]
             /\ UNCHANGED <<peer, deleted, stored>>
        ELSE /\ SuccessRest(p, isWitness, blockHeight,
                            mergeEventsReceived, cursor)
             /\ UNCHANGED call
  /\ UNCHANGED <<now, blockHeight, witnesses, otherZero, otherPositive>>
  /\ UNCHANGED <<dagVars, configVars, clientVars, strategyVars,
               pipelineVars, sessionVars, backoffVars>>

\* GossipPeer.success, lines 161-241: after `await count(...)`
SuccessResume(p) ==
  /\ call[p].pc = "count"
  /\ call' = [call EXCEPT ![p] = NoCall]
  /\ IF CapacityDrop(call[p].peerCount)
     THEN /\ GossipPeerDelete(p)
          /\ UNCHANGED peer
     ELSE SuccessRest(p, call[p].isWitness, call[p].blockHeight,
                      call[p].mergeEventsReceived, call[p].cursor)
  /\ UNCHANGED <<now, blockHeight, witnesses, otherZero, otherPositive,
                 ncalls>>
  /\ UNCHANGED <<dagVars, configVars, clientVars, strategyVars,
               pipelineVars, sessionVars, backoffVars>>

(***************************************************************************)
(* The environment of the GossipPeers: the clock and the consensus state.  *)
(***************************************************************************)
Tick ==
  /\ now < MaxTime
  /\ now' = now + 1
  /\ UNCHANGED <<blockHeight, witnesses, peer, deleted, stored, otherZero,
                 otherPositive, call, ncalls>>
  /\ UNCHANGED <<dagVars, configVars, clientVars, strategyVars,
               pipelineVars, sessionVars, backoffVars>>

\* a block is committed; the witnesses of the next block are selected
NextBlock ==
  /\ blockHeight < MaxBlockHeight
  /\ blockHeight' = blockHeight + 1
  /\ witnesses' \in SUBSET Peers
  /\ UNCHANGED <<now, peer, deleted, stored, otherZero, otherPositive,
                 call, ncalls>>
  /\ UNCHANGED <<dagVars, configVars, clientVars, strategyVars,
               pipelineVars, sessionVars, backoffVars>>

\* fail() and success() are called with the cursor omitted
Next ==
  \/ \E p \in Peers, f \in BOOLEAN : Fail(p, "undefined", f)
  \/ \E p \in Peers, m \in BOOLEAN : SuccessStart(p, m, "null")
  \/ \E p \in Peers : SuccessResume(p)
  \/ Tick
  \/ NextBlock

Spec == Init /\ [][Next]_vars

(***************************************************************************)
(* Discovery of a peer: a row of reputation 0 is created while the peers   *)
(* collection holds fewer than MaxPeers rows.                              *)
(***************************************************************************)
DiscoverUncapped ==
  /\ otherZero' = otherZero + 1
  /\ UNCHANGED <<now, blockHeight, witnesses, peer, deleted, stored,
                 otherPositive, call, ncalls>>
  /\ UNCHANGED <<dagVars, configVars, clientVars, strategyVars,
               pipelineVars, sessionVars, backoffVars>>

Discover ==
  /\ PeersTotal(stored, otherZero, otherPositive) < MaxPeers
  /\ otherZero' = otherZero + 1
  /\ UNCHANGED <<now, blockHeight, witnesses, peer, deleted, stored,
                 otherPositive, call, ncalls>>
  /\ UNCHANGED <<dagVars, configVars, clientVars, strategyVars,
               pipelineVars, sessionVars, backoffVars>>

\* the peers collection is full when the GossipPeers are constructed
InitDiscovery == Init /\ otherZero = MaxZeroPeers - 1

NextDiscovery == Next \/ Discover

SpecDiscovery == InitDiscovery /\ [][NextDiscovery]_vars

(***************************************************************************)
(* Properties of the peer reputation manager.                              *)
(***************************************************************************)
InRange(r) == 0 <= r /\ r <= MaxReputation

\* C1: the reputation of every peer of the peers collection, and of every
\* GossipPeer that has not been deleted, is in [0, 100] in every state
\* reachable by fail() and success() calls.
C1_ReputationBounded ==
  \A p \in Peers :
    /\ stored[p].present => InRange(stored[p].peer.reputation)
    /\ ~deleted[p] => InRange(peer[p].reputation)

\* a success with merge events has acted on a peer of reputation 100
C1_Witness ==
  \E p \in Peers :
    /\ stored[p].present
    /\ stored[p].peer.reputation = MaxReputation
    /\ stored[p].peer.lastPullResult = "success"
    /\ stored[p].peer.sequence > 0
    /\ ~stored[p].peer.idle.present

\* the step persists the update of a success() call on p
SuccessCommitted(p) ==
  /\ stored[p].present
  /\ stored'[p].present
  /\ stored'[p].peer.sequence = stored[p].peer.sequence + 1
  /\ stored'[p].peer.lastPullResult = "success"

\* C2: after any success() call commits, count({maxReputation: 0}) is at
\* most 100, from a peers collection with at most 100 such rows.
C2_CapacityAfterSuccess ==
  [][(\E p \in Peers : SuccessCommitted(p)) =>
       PeersCount(stored', otherZero', 0) <= MaxZeroPeers]_vars

\* the step is a fail() call with fatal = true
FatalFailStep == peer' = peer /\ call' = call /\ ncalls' = ncalls + 1

\* the step removes the row of p
RowRemoved(p) == stored[p].present /\ ~stored'[p].present

\* p was a witness when the call that takes the step started
WitnessAtCallStart(p) ==
  IF call[p].pc = "count" /\ call'[p].pc = "none"
  THEN call[p].isWitness
  ELSE p \in witnesses

\* C3 as stated: no step of fail() or success() removes the row of a peer
\* of the current witness set, whatever the arguments (fatal included).
C3_WitnessNeverDeleted ==
  [][\A p \in Peers : p \in witnesses => ~RowRemoved(p)]_vars

\* C3 as amended: a peer that is a witness when the call starts is never
\* removed by a non-fatal fail() or by success(); only fail() with
\* fatal = true removes a witness.
C3_WitnessDeletedOnlyByFatal ==
  [][\A p \in Peers :
       (RowRemoved(p) /\ WitnessAtCallStart(p)) => FatalFailStep]_vars

\* a non-fatal fail() computed a reputation below 0 for a witness, which is
\* kept with reputation 0
C3_Witness ==
  \E p \in witnesses :
    /\ stored[p].present
    /\ stored[p].peer.lastPullResult = "error"
    /\ stored[p].peer.firstFailure.reputation = 0
    /\ stored[p].peer.reputation = 0

MaxEvents == 7

IsMerge(h) == events[h].type = "merge"
IsRegular(h) == events[h].type = "regular"

\* the events reachable from h along parentHash
RECURSIVE Ancestors(_)
Ancestors(h) ==
  LET parents == events[h].parentHash
  IN parents \cup UNION {Ancestors(q) : q \in parents}

\* the merge events by creator among the hashes of an events collection
MergeEventsBy(hashes, creator) ==
  {h \in hashes : IsMerge(h) /\ events[h].creator = creator}

\* getLocalBranchHead answering the first merge event of the creator
getLocalBranchHeadFirst(hashes, creator) ==
  LET mine == MergeEventsBy(hashes, creator)
  IN IF mine = {} THEN GenesisHash
     ELSE CHOOSE h \in mine :
            \A k \in mine : events[h].mergeHeight <= events[k].mergeHeight

\* getLocalBranchHead(creator): the latest merge event by creator known
\* locally, by the index (creator, mergeHeight); genesis if none
getLocalBranchHead(hashes, creator) ==
  LET mine == MergeEventsBy(hashes, creator)
  IN IF mine = {} THEN GenesisHash
     ELSE CHOOSE h \in mine :
            \A k \in mine : events[k].mergeHeight <= events[h].mergeHeight

\* mergeHeight = 1 + max mergeHeight of parents
MergeHeight(parents) ==
  1 + CHOOSE m \in {events[q].mergeHeight : q \in parents} :
        \A q \in parents : events[q].mergeHeight <= m

\* the head of the node's own branch with everything in its ancestry
Merged(n) ==
  LET head == getLocalBranchHead(known[n], n)
  IN {head} \cup Ancestors(head)

\* the regular events of the node that none of its merge events merged
PendingRegular(n) ==
  {h \in known[n] : IsRegular(h) /\ events[h].creator = n
                    /\ h \notin Merged(n)}

\* RemoteHeads taking every unmerged merge event of the other creators
RemoteUnmerged(n) ==
  {h \in known[n] : IsMerge(h) /\ events[h].creator # n
                    /\ h \notin Merged(n)}

\* the latest head of every other creator, where it is not merged yet
RemoteHeads(n) ==
  {h \in {getLocalBranchHead(known[n], c) : c \in Nodes \ {n}} :
     h \notin Merged(n)}

(***************************************************************************)
(* ledgerNode.events.add of a regular event created by node n.             *)
(***************************************************************************)
AddEvent(n) ==
  /\ Len(events) < MaxEvents
  /\ LET treeHash == getLocalBranchHead(known[n], n)
         event == [type |-> "regular", creator |-> n,
                   treeHash |-> treeHash, parentHash |-> {treeHash},
                   mergeHeight |-> MergeHeight({treeHash})]
     IN /\ events' = Append(events, event)
        /\ known' = [known EXCEPT ![n] = @ \cup {Len(events) + 1}]
  /\ UNCHANGED <<consensus, blocks>>
  /\ UNCHANGED <<peerVars, configVars, clientVars, strategyVars,
               pipelineVars, sessionVars, backoffVars>>

(***************************************************************************)
(* mergeBranches({ledgerNode}) on node n: nothing is created when there is *)
(* nothing to merge.                                                       *)
(***************************************************************************)
MergeBranches(n) ==
  /\ Len(events) < MaxEvents
  /\ LET treeHash == getLocalBranchHead(known[n], n)
         nonTree == PendingRegular(n) \cup RemoteHeads(n)
         parentHash == {treeHash} \cup nonTree
         event == [type |-> "merge", creator |-> n,
                   treeHash |-> treeHash, parentHash |-> parentHash,
                   mergeHeight |-> MergeHeight(parentHash)]
     IN /\ nonTree # {}
        /\ events' = Append(events, event)
        /\ known' = [known EXCEPT ![n] = @ \cup {Len(events) + 1}]
  /\ UNCHANGED <<consensus, blocks>>
  /\ UNCHANGED <<peerVars, configVars, clientVars, strategyVars,
               pipelineVars, sessionVars, backoffVars>>

(***************************************************************************)
(* Gossip: node n pulls from node m a merge event it is missing, with the  *)
(* events that merge event references.                                     *)
(***************************************************************************)
Pull(n, m) ==
  /\ n # m
  /\ \E h \in known[m] \ known[n] :
       /\ IsMerge(h)
       /\ known' = [known EXCEPT ![n] = @ \cup {h} \cup Ancestors(h)]
  /\ UNCHANGED <<events, consensus, blocks>>
  /\ UNCHANGED <<peerVars, configVars, clientVars, strategyVars,
               pipelineVars, sessionVars, backoffVars>>

\* no GossipPeer is followed while the DAG is built
NoGossipPeer ==
  /\ witnesses = {}
  /\ peer = [p \in Peers |-> NewPeer(0)]
  /\ otherZero = 0

InitMerge == Init /\ NoGossipPeer

NextMerge ==
  \/ \E n \in Nodes : AddEvent(n)
  \/ \E n \in Nodes : MergeBranches(n)
  \/ \E n, m \in Nodes : Pull(n, m)

SpecMerge == InitMerge /\ [][NextMerge]_vars

(***************************************************************************)
(* Properties of merging.                                                  *)
(***************************************************************************)
\* a step in which mergeBranches creates a merge event
MergeStep ==
  /\ Len(events') = Len(events) + 1
  /\ events'[Len(events')].type = "merge"

\* the merge events by creator c that node n holds and that no merge event
\* by c held by n has as its treeHash: the last of c's chain
ChainTips(n, c) ==
  {h \in MergeEventsBy(known[n], c) :
     \A k \in MergeEventsBy(known[n], c) : events[k].treeHash # h}

\* h is a merge event of node n or in the ancestry of one
InBranch(n, h) ==
  \E k \in MergeEventsBy(known[n], n) : h = k \/ h \in Ancestors(k)

\* the regular events node n created on top of treeHash
RegularSince(n, treeHash) ==
  {h \in known[n] : IsRegular(h) /\ events[h].creator = n
                    /\ events[h].treeHash = treeHash}

\* the last merge event of every other creator that n has not merged
UnmergedTips(n) ==
  UNION {{h \in ChainTips(n, c) : ~InBranch(n, h)} : c \in Nodes \ {n}}

\* the parents of the created merge event that are neither its treeHash
\* nor regular events
OtherParents(e) == {q \in e.parentHash \ {e.treeHash} : IsMerge(q)}

\* the parentHash of the merge event created in a MergeStep is made of
\* the treeHash, the pending local regular events and the last unmerged
\* merge event of every other creator
ExactParents(e) ==
  /\ e.treeHash \in e.parentHash
  /\ e.parentHash = {e.treeHash} \cup RegularSince(e.creator, e.treeHash)
                      \cup UnmergedTips(e.creator)
  /\ \A q \in OtherParents(e) :
       /\ events[q].creator # e.creator
       /\ \A k \in MergeEventsBy(known[e.creator], events[q].creator) :
            events[k].treeHash # q

LatestMergeBefore(creator, h) ==
  LET earlier == {k \in 1..(h - 1) :
                    IsMerge(k) /\ events[k].creator = creator}
  IN IF earlier = {} THEN GenesisHash
     ELSE CHOOSE k \in earlier : \A j \in earlier : j <= k

\* C10: every locally created event, regular or merge, has as treeHash the
\* branch head of its creator at creation time -- the genesis merge event
\* before the creator's first merge, then its most recent merge event --
\* and the merge events of one creator form a single chain under treeHash.
C10_TreeHashIsBranchHead ==
  /\ \A h \in (GenesisHash + 1)..Len(events) :
       events[h].treeHash = LatestMergeBefore(events[h].creator, h)
  /\ \A h, k \in (GenesisHash + 1)..Len(events) :
       (/\ h # k /\ IsMerge(h) /\ IsMerge(k)
        /\ events[h].creator = events[k].creator)
       => events[h].treeHash # events[k].treeHash

\* a node other than the genesis node merged twice and then added a
\* regular event on top of its second merge event
C10_Witness ==
  \E n \in Nodes \ {GenesisNode} :
  \E h, k, r \in (GenesisHash + 1)..Len(events) :
    /\ IsMerge(h) /\ IsMerge(k) /\ IsRegular(r)
    /\ events[h].creator = n /\ events[k].creator = n
    /\ events[r].creator = n
    /\ events[h].treeHash = GenesisHash
    /\ events[k].treeHash = h
    /\ events[r].treeHash = k

(***************************************************************************)
(* Part II : the recent history of a node.                                 *)
(***************************************************************************)
\* the events of node n that are not marked as having consensus
NotConsensus(n) == known[n] \ consensus[n]

\* getRecentHistory listing every parent, in the slice or not
getRecentHistoryAllParents(n) ==
  [h \in NotConsensus(n) |->
     [_parents |-> events[h].parentHash,
      _children |-> {c \in NotConsensus(n) : h \in events[c].parentHash}]]

\* getRecentHistory({ledgerNode}).eventMap: the events not yet marked
\* consensus, each with the parents and the children it has among them
getRecentHistory(n) ==
  [h \in NotConsensus(n) |->
     [_parents |-> events[h].parentHash \cap NotConsensus(n),
      _children |-> {c \in NotConsensus(n) : h \in events[c].parentHash}]]

(***************************************************************************)
(* markConsensus(hashes) on node n: a merge event is marked together with  *)
(* everything in its ancestry.  Which merge event is for the consensus     *)
(* algorithm to say; any is allowed here.                                  *)
(***************************************************************************)
MarkConsensus(n) ==
  /\ \E h \in NotConsensus(n) :
       /\ IsMerge(h)
       /\ consensus' = [consensus EXCEPT ![n] = @ \cup {h} \cup Ancestors(h)]
  /\ UNCHANGED <<events, known, blocks>>
  /\ UNCHANGED <<peerVars, configVars, clientVars, strategyVars,
               pipelineVars, sessionVars, backoffVars>>

\* at most MaxHistoryEvents events exist while events are being marked
MaxHistoryEvents == 6

NextHistory ==
  \/ \E n \in Nodes : AddEvent(n) /\ Len(events) < MaxHistoryEvents
  \/ \E n \in Nodes : MergeBranches(n) /\ Len(events) < MaxHistoryEvents
  \/ \E n, m \in Nodes : Pull(n, m)
  \/ \E n \in Nodes : MarkConsensus(n)

SpecHistory == InitMerge /\ [][NextHistory]_vars

\* the slice is made of the events not marked consensus, and _parents and
\* _children are inverse relations within it that follow parentHash
HistoryIsInverse(n) ==
  LET eventMap == getRecentHistory(n)
      slice == DOMAIN eventMap
  IN /\ slice = {h \in known[n] : h \notin consensus[n]}
     /\ \A e \in slice :
          /\ eventMap[e]._parents \subseteq slice
          /\ eventMap[e]._children \subseteq slice
     /\ \A e, p \in slice :
          /\ (p \in eventMap[e]._parents) = (e \in eventMap[p]._children)
          /\ (p \in eventMap[e]._parents) = (p \in events[e].parentHash)

\* no merge event that node n holds has h as a parent
Unmerged(n, h) ==
  \A k \in known[n] : IsMerge(k) => h \notin events[k].parentHash

RECURSIVE AncestorsIn(_, _)
AncestorsIn(evs, h) ==
  LET parents == evs[h].parentHash
  IN parents \cup UNION {AncestorsIn(evs, q) : q \in parents}

\* a gossip session that transfers every event, merged or not
TransferableAll(hashes) == hashes

\* what a gossip session transfers out of an events collection: the merge
\* events with the events they reference
Transferable(hashes) ==
  UNION {{h} \cup Ancestors(h) : h \in {k \in hashes : IsMerge(k)}}

\* the electors of the next block of node n
Electors(n) == {GenesisNode}

\* the peers the worker of node n gossips with
GossipPeers(n) == Electors(n) \ {n}

\* the events collection of node m after node n gossiped with its peers:
\* n pulls what the peer has and pushes what it had itself
AfterGossip(n, m) ==
  IF m = n
  THEN known[n] \cup UNION {Transferable(known[e]) : e \in GossipPeers(n)}
  ELSE IF m \in GossipPeers(n)
       THEN known[m] \cup Transferable(known[n])
       ELSE known[m]

\* the non-tree parents of the merge event node n creates out of the
\* events collection hashes: its pending regular events and the unmerged
\* latest heads of the other creators
NonTreeParents(hashes, n) ==
  LET head == getLocalBranchHead(hashes, n)
      merged == {head} \cup Ancestors(head)
  IN {h \in hashes : IsRegular(h) /\ events[h].creator = n
                     /\ h \notin merged}
     \cup {h \in {getLocalBranchHead(hashes, c) : c \in Nodes \ {n}} :
             h \notin merged}

\* the merge event node n creates out of the events collection hashes
MergeEventOf(hashes, n) ==
  LET treeHash == getLocalBranchHead(hashes, n)
      parentHash == {treeHash} \cup NonTreeParents(hashes, n)
  IN [type |-> "merge", creator |-> n, treeHash |-> treeHash,
      parentHash |-> parentHash, mergeHeight |-> MergeHeight(parentHash)]

\* the unmarked merge events of the sole elector among hashes
ElectorMerges(evs, hashes, marked) ==
  {h \in hashes \ marked :
     evs[h].type = "merge" /\ evs[h].creator = GenesisNode}

\* the first block: what the first unmarked merge event of the sole
\* elector has in its ancestry, with an empty proof
FirstBlock(evs, hashes, marked) ==
  LET ys == ElectorMerges(evs, hashes, marked)
      y == CHOOSE h \in ys :
             \A k \in ys : evs[h].mergeHeight <= evs[k].mergeHeight
  IN [blockHeight |-> 1,
      event |-> ({y} \cup AncestorsIn(evs, y)) \ marked,
      consensusProof |-> {},
      previousBlockHash |-> BlockHash(GenesisBlock)]

(***************************************************************************)
(* One run of the worker of node n: gossip, merge, consensus.              *)
(***************************************************************************)
Worker(n) ==
  LET gossiped == AfterGossip(n, n)
      merges == NonTreeParents(gossiped, n) # {}
      evs == IF merges THEN Append(events, MergeEventOf(gossiped, n))
             ELSE events
      mine == IF merges THEN gossiped \cup {Len(events) + 1} ELSE gossiped
      decides == /\ Len(blocks[n]) = 1
                 /\ ElectorMerges(evs, mine, consensus[n]) # {}
      block == FirstBlock(evs, mine, consensus[n])
  IN /\ merges => Len(events) < MaxEvents
     /\ events' = evs
     /\ known' = [m \in Nodes |-> IF m = n THEN mine ELSE AfterGossip(n, m)]
     /\ blocks' = IF decides THEN [blocks EXCEPT ![n] = Append(@, block)]
                  ELSE blocks
     /\ consensus' = IF decides
                     THEN [consensus EXCEPT ![n] = @ \cup block.event]
                     ELSE consensus
     /\ UNCHANGED <<peerVars, configVars, clientVars, strategyVars,
               pipelineVars, sessionVars, backoffVars>>

NextNetwork ==
  \/ \E n \in Nodes : AddEvent(n)
  \/ \E n \in Nodes : Worker(n)

SpecNetwork == InitMerge /\ [][NextNetwork]_vars

(***************************************************************************)
(* Properties of the genesis block and of the first block.                 *)
(***************************************************************************)
LatestBlock(n) == blocks[n][Len(blocks[n])]

Alpha == GenesisNode
Beta == "n2"

\* beta added one regular event and no worker has run
BetaAddedEvent ==
  /\ Len(events) = 3
  /\ IsRegular(3) /\ events[3].creator = Beta
  /\ known[Alpha] = {ConfigHash, GenesisHash}
  /\ known[Beta] = {ConfigHash, GenesisHash, 3}

\* beta merged its regular event and alpha has not received anything
BetaMerged ==
  /\ Len(events) = 4
  /\ IsRegular(3) /\ events[3].creator = Beta
  /\ IsMerge(4) /\ events[4].creator = Beta
  /\ known[Alpha] = {ConfigHash, GenesisHash}
  /\ known[Beta] = 1..4

\* alpha and beta hold the same four events and alpha has no block yet
BothHoldFour ==
  /\ Len(events) = 4
  /\ IsRegular(3) /\ events[3].creator = Beta
  /\ IsMerge(4) /\ events[4].creator = Beta
  /\ known[Alpha] = 1..4
  /\ known[Beta] = 1..4
  /\ Len(blocks[Alpha]) = 1

PeerId(n) == n

ConfigProperties == {"ledger", "creator", "sequence"}

\* the ledger configurations handed to config.change
Configurations ==
  {cfg \in [present : SUBSET ConfigProperties,
            ledger : {LedgerId, "invalidLedger", Absent},
            creator : Nodes \cup {"invalidCreator", Absent},
            sequence : 0..(MaxConfigChanges + 1),
            consensusMethod : ConsensusMethods \ {"Continuity2017"}] :
     /\ ("ledger" \in cfg.present) <=> (cfg.ledger # Absent)
     /\ ("creator" \in cfg.present) <=> (cfg.creator # Absent)
     /\ ("sequence" \notin cfg.present) => (cfg.sequence = 0)}

\* the required properties the configuration does not have
Missing(cfg) == ConfigProperties \ cfg.present

\* Invalid without the check of the sequence
InvalidExceptSequence(n, cfg) ==
  {p \in cfg.present :
     \/ p = "ledger" /\ cfg.ledger # LedgerId
     \/ p = "creator" /\ cfg.creator # PeerId(n)}

\* the properties whose value node n does not accept
Invalid(n, cfg) ==
  {p \in cfg.present :
     \/ p = "ledger" /\ cfg.ledger # LedgerId
     \/ p = "creator" /\ cfg.creator # PeerId(n)
     \/ p = "sequence" /\ cfg.sequence # ledgerConfig[n].sequence + 1}

\* the error config.change throws on node n: the schema first, then the
\* values
validateConfiguration(n, cfg) ==
  IF Missing(cfg) # {}
  THEN [name |-> "ValidationError", properties |-> Missing(cfg)]
  ELSE IF Invalid(n, cfg) # {}
       THEN [name |-> "SyntaxError", properties |-> Invalid(n, cfg)]
       ELSE NoError

\* the network has settled: every accepted change reached consensus on
\* every node
Settled == \A n \in Nodes : applied[n] = Len(configEvents)

\* ledgerNode.config.change({ledgerConfiguration}) on node n, called on a
\* settled network
ConfigChange(n, cfg) ==
  LET error == validateConfiguration(n, cfg)
  IN /\ Settled
     /\ error = NoError => Len(configEvents) < MaxConfigChanges
     /\ changeResult' = [called |-> TRUE, node |-> n,
                         ledgerConfiguration |-> cfg, error |-> error]
     /\ configEvents' = IF error = NoError THEN Append(configEvents, cfg)
                        ELSE configEvents
     /\ UNCHANGED <<ledgerConfig, applied>>
     /\ UNCHANGED <<peerVars, dagVars, clientVars, strategyVars,
               pipelineVars, sessionVars, backoffVars>>

\* the next accepted configuration reaches consensus on node n
ConfigConsensus(n) ==
  /\ applied[n] < Len(configEvents)
  /\ ledgerConfig' = [ledgerConfig EXCEPT ![n] = configEvents[applied[n] + 1]]
  /\ applied' = [applied EXCEPT ![n] = @ + 1]
  /\ UNCHANGED <<configEvents, changeResult>>
  /\ UNCHANGED <<peerVars, dagVars, clientVars, strategyVars,
               pipelineVars, sessionVars, backoffVars>>

(***************************************************************************)
(* The gossip client: _client.notifyPeer and _client.getEvents, as the     *)
(* tests of 70-multinode.js exercise them.                                 *)
(***************************************************************************)
\* requestError conveying HTTP 404 as a NotFoundError
requestErrorNotFound(remotePeer) ==
  IF answers[remotePeer] = "ECONNREFUSED"
  THEN [name |-> "NetworkError", httpStatusCode |-> 0,
        cause |-> {"address", "code", "errno", "port"},
        code |-> "ECONNREFUSED"]
  ELSE IF answers[remotePeer] = "404"
       THEN [name |-> "NotFoundError", httpStatusCode |-> 404,
             cause |-> {}, code |-> "none"]
       ELSE NoClientError

\* the error of an HTTP request to remotePeer
requestError(remotePeer) ==
  IF answers[remotePeer] = "ECONNREFUSED"
  THEN [name |-> "NetworkError", httpStatusCode |-> 0,
        cause |-> {"address", "code", "errno", "port"},
        code |-> "ECONNREFUSED"]
  ELSE IF answers[remotePeer] = "404"
       THEN [name |-> "NetworkError", httpStatusCode |-> 404,
             cause |-> {}, code |-> "none"]
       ELSE NoClientError

\* _client.notifyPeer({remotePeer, ledgerNodeId})
notifyPeer(ledgerNodeId, remotePeer) ==
  /\ clientResult' =
       [op |-> "notifyPeer", ledgerNodeId |-> ledgerNodeId,
        remotePeer |-> remotePeer,
        error |-> IF ledgerNodeId \notin localPeers
                  THEN [name |-> "NotFoundError", httpStatusCode |-> 0,
                        cause |-> {}, code |-> "none"]
                  ELSE requestError(remotePeer)]
  /\ UNCHANGED <<localPeers, answers>>
  /\ UNCHANGED <<peerVars, dagVars, configVars, strategyVars,
               pipelineVars, sessionVars, backoffVars>>

\* _client.getEvents({eventHashes, remotePeer})
getEvents(remotePeer) ==
  /\ clientResult' =
       [op |-> "getEvents", ledgerNodeId |-> "none",
        remotePeer |-> remotePeer, error |-> requestError(remotePeer)]
  /\ UNCHANGED <<localPeers, answers>>
  /\ UNCHANGED <<peerVars, dagVars, configVars, strategyVars,
               pipelineVars, sessionVars, backoffVars>>

NextConfig ==
  \/ \E n \in Nodes, cfg \in Configurations : ConfigChange(n, cfg)
  \/ \E n \in Nodes : ConfigConsensus(n)

SpecConfig == InitMerge /\ [][NextConfig]_vars

InitClient ==
  /\ PeerInit /\ NoGossipPeer /\ backoffConfig = DefaultBackoff
  /\ IdleInit
  /\ ClientInit
  /\ AllWitnesses /\ StrategyInit

NextClient ==
  \/ \E l \in LedgerNodeIds, r \in RemotePeers : notifyPeer(l, r)
  \/ \E r \in RemotePeers : getEvents(r)

SpecClient == InitClient /\ [][NextClient]_vars

C19_ClientErrors ==
  LET r == clientResult
      reached == r.op = "getEvents" \/ r.ledgerNodeId \in localPeers
  IN /\ (r.op = "notifyPeer" /\ r.ledgerNodeId \notin localPeers)
          => r.error.name = "NotFoundError"
     /\ (r.op # "none" /\ reached
           /\ answers[r.remotePeer] = "ECONNREFUSED")
          => /\ r.error.name = "NetworkError"
             /\ {"address", "code", "errno", "port"} \subseteq r.error.cause
     /\ (r.op = "getEvents" /\ answers[r.remotePeer] = "404")
          => /\ r.error.name = "NetworkError"
             /\ r.error.httpStatusCode = 404

\* getEvents was answered with HTTP 404
C19_Witness ==
  /\ clientResult.op = "getEvents"
  /\ answers[clientResult.remotePeer] = "404"
  /\ clientResult.error.httpStatusCode = 404

(***************************************************************************)
(* PART V.  The round-robin gossip strategy of the simulator: run,         *)
(* _mergeWithNode and _mergeNodeEvents.                                    *)
(***************************************************************************)
\* this.getPeers(): the other nodes of the simulation
getPeers == NodeIds(nodeCount) \ {localNodeId}

\* the Maps a loop with `(2 / this.nodes.size) < Math.random()` can build
\* out of candidates: Math.random() is below 1
NotificationMaps(candidates) ==
  IF 2 < nodeCount THEN SUBSET candidates ELSE {{}}

\* peer.getHistory() during a run in which the local node holds hist
getHistory(hist, p) == IF p = localNodeId THEN hist ELSE history[p]

\* _mergeNodeEvents, lines 105-139: the events of the peer the node does
\* not have are downloaded and added
mergeNodeEvents(hist, p) ==
  [hist |-> hist \cup getHistory(hist, p),
   downloadedEvents |-> Cardinality(getHistory(hist, p) \ hist)]

\* mergeWithNode without the peers.delete of line 98
mergeWithNodeKeepsPeer(st, which) ==
  LET peers == IF which = "notificationWitnesses" THEN st.notificationWitnesses
               ELSE st.notificationPeers
  IN IF peers = {}
     THEN {st}
     ELSE {LET merged == mergeNodeEvents(st.hist, randomPeerId)
           IN [st EXCEPT !.hist = merged.hist,
                         !.gossipSessions =
                            Append(@, [peer |-> randomPeerId,
                                       events |-> merged.downloadedEvents]),
                         !.randomMergeCount = @ + 1]
           : randomPeerId \in peers}

\* _mergeWithNode, lines 88-103, on the Map named by which: the outcomes of
\* the random choice of a peer
mergeWithNode(st, which) ==
  LET peers == IF which = "notificationWitnesses" THEN st.notificationWitnesses
               ELSE st.notificationPeers
  IN IF peers = {}
     THEN {st}
     ELSE {LET merged == mergeNodeEvents(st.hist, randomPeerId)
           IN [hist |-> merged.hist,
               gossipSessions |->
                 Append(st.gossipSessions,
                        [peer |-> randomPeerId,
                         events |-> merged.downloadedEvents]),
               notificationWitnesses |->
                 IF which = "notificationWitnesses"
                 THEN st.notificationWitnesses \ {randomPeerId}
                 ELSE st.notificationWitnesses,
               notificationPeers |->
                 IF which = "notificationWitnesses"
                 THEN st.notificationPeers
                 ELSE st.notificationPeers \ {randomPeerId},
               randomMergeCount |-> st.randomMergeCount + 1]
           : randomPeerId \in peers}

\* mergeWithNodeIfFew without the test of randomMergeCount
mergeWithNodeAlways(st, which) == mergeWithNode(st, which)

\* mergeWithNode under `if(randomMergeCount < 2)`
mergeWithNodeIfFew(st, which) ==
  IF st.randomMergeCount < 2 THEN mergeWithNode(st, which) ELSE {st}

\* lines 51-83: the round-robin session and the random sessions after it
Sessions(chosen, notificationWitnesses, notificationPeers) ==
  LET merged == mergeNodeEvents(history[localNodeId], chosen)
      st0 == [hist |-> merged.hist,
              gossipSessions |->
                <<[peer |-> chosen, events |-> merged.downloadedEvents]>>,
              notificationWitnesses |-> notificationWitnesses \ {chosen},
              notificationPeers |-> notificationPeers,
              randomMergeCount |-> 0]
      s1 == mergeWithNode(st0, "notificationWitnesses")
      s2 == UNION {mergeWithNode(st, "notificationPeers") : st \in s1}
      s3 == UNION {mergeWithNodeIfFew(st, "notificationPeers") : st \in s2}
  IN UNION {mergeWithNodeIfFew(st, "notificationWitnesses") : st \in s3}

\* NextCounter without the skip of this node
NextCounterNoSkip(random) ==
  IF gossipCounter = Undefined THEN random ELSE gossipCounter + 1

\* NextCounter without the increment
NextCounterNoIncrement(random) ==
  LET counted == IF gossipCounter = Undefined THEN random ELSE gossipCounter
  IN IF (localNodeId + counted) % nodeCount = localNodeId
     THEN counted + 1
     ELSE counted

\* lines 14-23: the counter after the increment and the skip of this node
NextCounter(random) ==
  LET counted == IF gossipCounter = Undefined THEN random
                 ELSE gossipCounter + 1
  IN IF (localNodeId + counted) % nodeCount = localNodeId
     THEN counted + 1
     ELSE counted

\* run, lines 8-86
run ==
  /\ gossipCounter < MaxGossipCounter
  /\ \E random \in NodeIds(nodeCount) :
     \E notificationWitnesses \in NotificationMaps(witnessPeers) :
     \E notificationPeers \in NotificationMaps(getPeers \ witnessPeers) :
       LET counter == NextCounter(random)
           chosen == (localNodeId + counter) % nodeCount
       IN /\ gossipCounter' = counter
          /\ roundRobinWitness' = chosen
          /\ IF chosen \in witnessPeers
             THEN \E st \in Sessions(chosen, notificationWitnesses,
                                     notificationPeers) :
                    /\ history' = [history EXCEPT ![localNodeId] = st.hist]
                    /\ gossipSessions' = st.gossipSessions
                    /\ thrown' = "none"
             ELSE \* witnesses.get(roundRobinWitness) is undefined and
                  \* line 106 reads peer.nodeId
                  /\ thrown' = "TypeError"
                  /\ gossipSessions' = <<>>
                  /\ UNCHANGED history
  /\ UNCHANGED <<nodeCount, localNodeId, witnessPeers>>
  /\ UNCHANGED <<peerVars, dagVars, configVars, clientVars, sessionVars,
                 backoffVars>>

InitStrategy ==
  /\ PeerInit /\ NoGossipPeer /\ backoffConfig = DefaultBackoff
  /\ IdleInit
  /\ TestClient /\ ClientInit
  /\ StrategyInit

NextStrategy == run /\ UNCHANGED pipelineVars

SpecStrategy == InitStrategy /\ [][NextStrategy]_vars

\* C20: in every run of the round-robin strategy the peer chosen for the
\* round-robin session is a member of the witness set.
C20_RoundRobinPeerIsWitness ==
  roundRobinWitness # Undefined => roundRobinWitness \in witnessPeers

\* C21: in a network of at least 2 nodes the round-robin choice of a run is
\* never the local node, whatever the random first value of gossipCounter.
C21_NeverSelectsLocalNode ==
  (nodeCount >= 2 /\ roundRobinWitness # Undefined)
    => /\ roundRobinWitness # localNodeId
       /\ roundRobinWitness = (localNodeId + gossipCounter) % nodeCount

\* a run whose counter came to a multiple of nodes.size + 1: the first run
\* with a random value of 0 or 1, or a later run that skipped this node
C21_Witness ==
  /\ nodeCount >= 2
  /\ roundRobinWitness # Undefined
  /\ gossipCounter % nodeCount = 1
  /\ roundRobinWitness = (localNodeId + 1) % nodeCount

\* the node after p in the cyclic order of the node ids, this node left out
NextOther(p) ==
  IF (p + 1) % nodeCount = localNodeId THEN (p + 2) % nodeCount
  ELSE (p + 1) % nodeCount

count == 1

\* the steps of one cycle, in the order of the awaits
Cycle == [i \in 1..(count + 2) |->
            IF i <= count THEN "gossip"
            ELSE IF i = count + 1 THEN "merge" ELSE "consensus"]

\* the steps completed in the cycle a step is added to
Completed == IF Len(steps) = Len(Cycle) THEN <<>> ELSE steps

\* a pipeline that awaits consensus before the merge
StepAfterConsensusFirst(done) ==
  IF Len(done) < count THEN "gossip"
  ELSE IF Len(done) = count THEN "consensus"
  ELSE IF Len(done) = count + 1 THEN "merge"
  ELSE "gossip"

\* the step the pipeline awaits after the steps done
StepAfter(done) ==
  IF Len(done) = Len(Cycle) THEN Cycle[1] ELSE Cycle[Len(done) + 1]

\* the eventHash of the merge event of the cycle
NewMergeEvent == MaxNodeCount + gossipCounter

\* line 19: await this.run({type: 'gossip', fn: gossipStrategy.run}); a
\* run that throws ends the pipeline function
PipelineGossip ==
  /\ pc = "gossip"
  /\ run
  /\ steps' = Append(Completed, "gossip")
  /\ pc' = IF thrown' # "none" THEN "gossip" ELSE StepAfter(steps')
  /\ mergeEvent' = IF Completed = <<>> THEN Undefined ELSE mergeEvent
  /\ UNCHANGED consensusInput

\* line 27: await this.run({type: 'merge', fn: mergeStrategy.run})
PipelineMerge ==
  /\ pc = "merge"
  /\ \E merges \in BOOLEAN :
       /\ mergeEvent' = IF merges THEN NewMergeEvent ELSE Undefined
       /\ history' = IF merges
                     THEN [history EXCEPT ![localNodeId] =
                             @ \cup {NewMergeEvent}]
                     ELSE history
  /\ steps' = Append(steps, "merge")
  /\ pc' = StepAfter(steps')
  /\ UNCHANGED <<nodeCount, localNodeId, witnessPeers, gossipCounter,
                 roundRobinWitness, gossipSessions, thrown, consensusInput>>
  /\ UNCHANGED <<peerVars, dagVars, configVars, clientVars, sessionVars,
                 backoffVars>>

\* line 28: await this.run({type: 'consensus'})
PipelineConsensus ==
  /\ pc = "consensus"
  /\ consensusInput' = history[localNodeId]
  /\ steps' = Append(steps, "consensus")
  /\ pc' = StepAfter(steps')
  /\ UNCHANGED mergeEvent
  /\ UNCHANGED <<peerVars, dagVars, configVars, clientVars, strategyVars,
                 sessionVars, backoffVars>>

NextPipeline ==
  \/ PipelineGossip
  \/ PipelineMerge
  \/ PipelineConsensus

\* the pipeline runs on node 0 of a simulation in which every node is a
\* witness
SpecPipeline == InitMerge /\ [][NextPipeline]_vars

MaxBackoffTime == 3

\* the peer the node gossips with
Followed == "p1"

\* backoffConfig: grace periods and delays in units of the clock
BackoffConfigs ==
  {[DefaultBackoff EXCEPT !.maxFailureGracePeriod = f,
                          !.maxIdleGracePeriod = i,
                          !.minFailure = m,
                          !.maxFailure = 3] :
     f \in {1, 2}, i \in {100, 150}, m \in {1, 2}}

InitBackoff ==
  /\ PeerInit
  /\ witnesses \subseteq {Followed}
  /\ \A p \in Peers \ {Followed} : peer[p] = NewPeer(MaxReputation)
  /\ otherZero = 0
  /\ backoffConfig \in BackoffConfigs
  /\ IdleInit
  /\ TestClient /\ ClientInit
  /\ AllWitnesses /\ StrategyInit

\* time passes
Elapse ==
  /\ now < MaxBackoffTime
  /\ now' = now + 1
  /\ UNCHANGED <<blockHeight, witnesses, peer, deleted, stored, otherZero,
                 otherPositive, call, ncalls>>
  /\ UNCHANGED <<dagVars, configVars, clientVars, strategyVars,
                 pipelineVars, sessionVars, backoffVars>>

NextBackoff ==
  \/ \E f \in BOOLEAN : Fail(Followed, "undefined", f)
  \/ \E m \in BOOLEAN : SuccessStart(Followed, m, "null")
  \/ SuccessResume(Followed)
  \/ Elapse
  \/ NextBlock /\ witnesses' \subseteq {Followed}

SpecBackoff == InitBackoff /\ [][NextBackoff]_vars

\* the step completes a success() call on p that received no merge events
IdleSuccessCompletes(p) ==
  \/ SuccessStart(p, FALSE, "null") /\ call'[p].pc = "none"
  \/ /\ SuccessResume(p)
     /\ ~CapacityDrop(call[p].peerCount)
     /\ ~call[p].mergeEventsReceived

\* the local block height the call that takes the step started with
HeightAtCallStart(p) ==
  IF call[p].pc = "count" /\ call'[p].pc = "none"
  THEN call[p].blockHeight
  ELSE blockHeight

\* the step is a success() call on p that takes the idle-penalty branch
IdlePenaltyStep(p) ==
  /\ IdleSuccessCompletes(p)
  /\ IdlePenalty(peer[p], HeightAtCallStart(p), FALSE)

\* C24 as stated: an idle-penalty success() takes at least one point for
\* every maxIdleGracePeriod/100 of idle time from a peer that has the
\* points, and leaves backoffUntil later than the current time.
C24_PointPerHundredthOfGracePeriod ==
  [][\A p \in Peers :
       LET totalIdleTime == now - peer[p].idle.time
           claimed == (totalIdleTime * MaxReputation) \div
                      backoffConfig.maxIdleGracePeriod
       IN (IdlePenaltyStep(p) /\ peer[p].reputation >= claimed) =>
            /\ peer[p].reputation - peer'[p].reputation >= claimed
            /\ peer'[p].backoffUntil > now]_vars

\* C24 as amended: an idle-penalty success() takes one point for every
\* ceil(maxIdleGracePeriod/100) of idle time, which is fewer than one per
\* maxIdleGracePeriod/100 when the grace period is not divisible by 100; a
\* witness is left at 0 at least; backoffUntil is later than the current
\* time, by min(maxIdle, minIdle * max(1, points)).
C24_IdlePenaltyRate ==
  [][\A p \in Peers :
       IdlePenaltyStep(p) =>
         LET totalIdleTime == now - peer[p].idle.time
             timePerPoint ==
               Ceil(backoffConfig.maxIdleGracePeriod, MaxReputation)
             points == totalIdleTime \div timePerPoint
             reduced == peer[p].reputation - points
         IN /\ points * timePerPoint <= totalIdleTime
            /\ totalIdleTime < (points + 1) * timePerPoint
            /\ points * backoffConfig.maxIdleGracePeriod
                 <= totalIdleTime * MaxReputation
            /\ peer'[p].reputation =
                 IF reduced < 0 /\ WitnessAtCallStart(p) THEN 0 ELSE reduced
            /\ peer'[p].idle.time = peer[p].idle.time + points * timePerPoint
            /\ peer'[p].backoffUntil > now
            /\ peer'[p].backoffUntil =
                 now + Min(backoffConfig.maxIdle,
                           backoffConfig.minIdle * Max(1, points))]_vars

\* with a grace period of 150 a peer of reputation 100 that idled for 3
\* units of time while a block was added has lost 1 point
C24_Witness ==
  /\ backoffConfig.maxIdleGracePeriod = 150
  /\ now = 3
  /\ stored[Followed].present
  /\ stored[Followed].peer.lastPullResult = "success"
  /\ stored[Followed].peer.lastPullAt = 3
  /\ stored[Followed].peer.idle = [present |-> TRUE, time |-> 2,
                                   localBlockHeight |-> 1]
  /\ stored[Followed].peer.reputation = MaxReputation - 1
  /\ stored[Followed].peer.backoffUntil = 4

\* the step is a fail() call on p with fatal = false
NonFatalFail(p) == Fail(p, "undefined", FALSE)

\* the step persists the record the call leaves in memory
Persisted(p) ==
  /\ deleted'[p] = deleted[p]
  /\ peer'[p].sequence = peer[p].sequence + 1
  /\ stored[p].present => stored'[p] = Row(peer'[p])

\* C26 as stated: a non-fatal fail() adds exactly 1 to consecutiveFailures;
\* the first failure of a streak records firstFailure = {reputation before
\* the decrement, time = lastPullAt} and leaves the reputation exactly 1
\* lower.
C26_FirstFailureTakesOnePoint ==
  [][\A p \in Peers :
       NonFatalFail(p) =>
         /\ peer'[p].consecutiveFailures = peer[p].consecutiveFailures + 1
         /\ peer'[p].consecutiveFailures = 1 =>
              /\ peer'[p].firstFailure =
                   [present |-> TRUE, reputation |-> peer[p].reputation,
                    time |-> peer'[p].lastPullAt]
              /\ peer'[p].reputation = peer[p].reputation - 1]_vars

\* C26 as amended: a non-fatal fail() adds exactly 1 to consecutiveFailures;
\* the first failure of a streak records firstFailure = {reputation before
\* the decrement, time = lastPullAt = now} and decrements the reputation by
\* exactly 1; the call leaves it 1 lower unless that is below 0 for a
\* current witness, which is left at 0.
C26_FirstFailure ==
  [][\A p \in Peers :
       NonFatalFail(p) =>
         /\ peer'[p].consecutiveFailures = peer[p].consecutiveFailures + 1
         /\ peer'[p].consecutiveFailures = 1 =>
              /\ peer'[p].firstFailure =
                   [present |-> TRUE, reputation |-> peer[p].reputation,
                    time |-> peer'[p].lastPullAt]
              /\ peer'[p].lastPullAt = now
              /\ peer'[p].reputation =
                   IF peer[p].reputation - 1 < 0 /\ p \in witnesses
                   THEN 0 ELSE peer[p].reputation - 1]_vars

\* the first failure of a witness of reputation 0, after time has passed,
\* has left it at 0 with the snapshot taken
C26_Witness ==
  /\ Followed \in witnesses
  /\ now >= 1
  /\ stored[Followed].present
  /\ stored[Followed].peer.consecutiveFailures = 1
  /\ stored[Followed].peer.firstFailure =
       [present |-> TRUE, reputation |-> 0, time |-> now]
  /\ stored[Followed].peer.lastPullAt = now
  /\ stored[Followed].peer.reputation = 0

\* the reputation lines 100-105 compute for a further failure of p
StreakReputation(p) ==
  LET start == peer[p].firstFailure.reputation
      elapsed == now - peer[p].firstFailure.time
  IN Min(start - 1,
         start - (elapsed \div backoffConfig.maxFailureGracePeriod) *
                 MaxReputation)

\* C27: on the second and later failures of a streak fail() computes
\* min(start - 1, start - floor(elapsed / maxFailureGracePeriod) * 100),
\* which is what the call leaves but for a witness below 0 (left at 0);
\* the reputation of a peer that is not deleted never increases during
\* the streak.
C27_StreakReputation ==
  [][\A p \in Peers :
       (NonFatalFail(p) /\ peer[p].consecutiveFailures >= 1) =>
         /\ peer'[p].firstFailure = peer[p].firstFailure
         /\ peer'[p].reputation =
              IF StreakReputation(p) < 0 /\ p \in witnesses
              THEN 0 ELSE StreakReputation(p)
         /\ ~deleted[p] => peer'[p].reputation <= peer[p].reputation]_vars

\* a peer of reputation 100 has failed twice, the second time a whole
\* grace period of 2 after the first, and is stored with reputation 0
C27_Witness ==
  /\ backoffConfig.maxFailureGracePeriod = 2
  /\ stored[Followed].present
  /\ stored[Followed].peer.consecutiveFailures = 2
  /\ stored[Followed].peer.firstFailure.reputation = MaxReputation
  /\ stored[Followed].peer.lastPullAt =
       stored[Followed].peer.firstFailure.time + 2
  /\ stored[Followed].peer.reputation = 0

\* C28: under consecutive failures the reputation of a peer that started
\* at 100 decreases linearly with the time since its first failure, from
\* 100 to 0 over maxFailureGracePeriod (within the point of the first
\* failure).
C28_LinearDecrease ==
  [][\A p \in Peers :
       LET elapsed == now - peer[p].firstFailure.time
           linear == MaxReputation -
                     (elapsed * MaxReputation) \div
                       backoffConfig.maxFailureGracePeriod
       IN (/\ NonFatalFail(p)
           /\ peer[p].consecutiveFailures >= 1
           /\ peer[p].firstFailure.reputation = MaxReputation
           /\ elapsed <= backoffConfig.maxFailureGracePeriod) =>
            /\ peer'[p].reputation <= linear
            /\ peer'[p].reputation >= linear - 1]_vars

\* the reputation a non-fatal fail() on p computes
FailComputed(p) == FailStatus(peer[p], now).reputation

\* the reputation an idle-penalty success() on p computes
PenaltyComputed(p) ==
  SuccessReputation(SuccessStatus(peer[p], now, "null"), now,
                    HeightAtCallStart(p), FALSE).reputation

\* the step deletes p and persists nothing
DeletedUnpersisted(p) ==
  /\ deleted'[p]
  /\ ~stored'[p].present
  /\ peer'[p].sequence = peer[p].sequence

\* C29 as stated: a reputation computed below 0 by a non-fatal fail() or an
\* idle-penalty success() deletes a peer that is not a witness, with the
\* sequence not incremented and backoffUntil not recomputed, and leaves a
\* witness at exactly 0 with the update persisted.
C29_NothingRecomputedOnDelete ==
  [][\A p \in Peers :
       /\ (NonFatalFail(p) /\ FailComputed(p) < 0) =>
            IF p \in witnesses
            THEN peer'[p].reputation = 0 /\ Persisted(p)
            ELSE /\ DeletedUnpersisted(p)
                 /\ peer'[p].backoffUntil = peer[p].backoffUntil
       /\ (IdlePenaltyStep(p) /\ PenaltyComputed(p) < 0) =>
            IF WitnessAtCallStart(p)
            THEN peer'[p].reputation = 0 /\ Persisted(p)
            ELSE /\ DeletedUnpersisted(p)
                 /\ peer'[p].backoffUntil = peer[p].backoffUntil]_vars

\* C29 as amended: a reputation computed below 0 deletes a peer that is
\* not a witness and persists nothing, the sequence not incremented; fail()
\* returns before backoffUntil is recomputed, success() has recomputed it
\* in memory before it deletes; a witness is left at exactly 0 and the
\* update is persisted.
C29_BelowZero ==
  [][\A p \in Peers :
       /\ (NonFatalFail(p) /\ FailComputed(p) < 0) =>
            IF p \in witnesses
            THEN peer'[p].reputation = 0 /\ Persisted(p)
            ELSE /\ DeletedUnpersisted(p)
                 /\ peer'[p].reputation = FailComputed(p)
                 /\ peer'[p].backoffUntil = peer[p].backoffUntil
       /\ (IdlePenaltyStep(p) /\ PenaltyComputed(p) < 0) =>
            IF WitnessAtCallStart(p)
            THEN peer'[p].reputation = 0 /\ Persisted(p)
            ELSE /\ DeletedUnpersisted(p)
                 /\ peer'[p].reputation = PenaltyComputed(p)
                 /\ peer'[p].backoffUntil > now]_vars

\* an idle-penalty success() has deleted a peer at a reputation below 0
\* after its first success() was persisted, backoffUntil recomputed
C29_Witness ==
  /\ deleted[Followed]
  /\ ~stored[Followed].present
  /\ peer[Followed].lastPullResult = "success"
  /\ peer[Followed].reputation < 0
  /\ peer[Followed].sequence = 1
  /\ peer[Followed].backoffUntil > peer[Followed].lastPullAt
  /\ peer[Followed].lastPullAt = now

\* candidates(now): the stored peers whose backoffUntil has passed
Candidates(st, t) ==
  {p \in Peers : st[p].present /\ st[p].peer.backoffUntil <= t}

\* C30: a non-fatal fail() that does not delete sets backoffUntil to
\* now + min(maxFailure, consecutiveFailures * minFailure); the delay is
\* at most maxFailure, not lower than the delay of the failure before it in
\* the streak, and the stored peer is no candidate before backoffUntil.
C30_FailureBackoff ==
  [][\A p \in Peers :
       (NonFatalFail(p) /\ ~FailDeletes(peer'[p], p \in witnesses)) =>
         LET delay == peer'[p].backoffUntil - now
         IN /\ delay = Min(backoffConfig.maxFailure,
                           peer'[p].consecutiveFailures *
                             backoffConfig.minFailure)
            /\ delay <= backoffConfig.maxFailure
            /\ (peer[p].consecutiveFailures >= 1 /\ ~deleted[p]) =>
                 delay >= peer[p].backoffUntil - peer[p].lastPullAt
            /\ stored[p].present =>
                 /\ stored'[p].peer.backoffUntil = peer'[p].backoffUntil
                 /\ \A t \in now..(peer'[p].backoffUntil - 1) :
                      p \notin Candidates(stored', t)]_vars

\* the second failure of a streak has set a delay capped at maxFailure,
\* and the peer is no candidate now
C30_Witness ==
  /\ backoffConfig.minFailure = 2
  /\ stored[Followed].present
  /\ stored[Followed].peer.consecutiveFailures = 2
  /\ stored[Followed].peer.lastPullAt = now
  /\ stored[Followed].peer.backoffUntil = now + backoffConfig.maxFailure
  /\ Followed \notin Candidates(stored, now)

(***************************************************************************)
(* PART VIII.  The gossip run step by step: a pull is in flight from the   *)
(* call of _mergeNodeEvents to the end of node.addEvents, and run goes on  *)
(* where its await lets it.                                                *)
(***************************************************************************)
\* the statements of run that may start a pull, in order: lines 62, 67,
\* 73 and 80, then the return of line 85
Attempts == <<"witnesses1", "peers1", "peers2", "witnesses2", "return">>

\* the statement after the statement at
AfterAttempt(at) ==
  LET i == CHOOSE j \in DOMAIN Attempts : Attempts[j] = at
  IN Attempts[i + 1]

\* the Map the statement hands to _mergeWithNode
AttemptMap(at) ==
  IF at \in {"witnesses1", "witnesses2"} THEN "notificationWitnesses"
  ELSE "notificationPeers"

\* the statement is under `if(randomMergeCount < 2)`
IfFew(at) == at \in {"peers2", "witnesses2"}

\* run going on without waiting for the pull it started
NotAwaited == TRUE

\* await: run goes on when the pull it started has completed
Awaited == session.inFlight = {}

\* lines 8-55: run up to the call of _mergeNodeEvents for the round-robin
\* peer
RunStart ==
  /\ session.pc = "none"
  /\ gossipCounter < MaxGossipCounter
  /\ \E random \in NodeIds(nodeCount) :
     \E notificationWitnesses \in NotificationMaps(witnessPeers) :
     \E notificationPeers \in NotificationMaps(getPeers \ witnessPeers) :
       LET counter == NextCounter(random)
           chosen == (localNodeId + counter) % nodeCount
       IN /\ gossipCounter' = counter
          /\ roundRobinWitness' = chosen
          /\ gossipSessions' = <<>>
          /\ IF chosen \in witnessPeers
             THEN /\ session' =
                       [pc |-> Attempts[1],
                        inFlight |-> {[peer |-> chosen,
                                       which |-> "roundRobin"]},
                        gossipSessions |-> <<>>,
                        notificationWitnesses |-> notificationWitnesses,
                        notificationPeers |-> notificationPeers,
                        randomMergeCount |-> 0]
                  /\ thrown' = "none"
             ELSE /\ thrown' = "TypeError"
                  /\ UNCHANGED session
  /\ UNCHANGED <<nodeCount, localNodeId, witnessPeers, history>>
  /\ UNCHANGED <<peerVars, dagVars, configVars, clientVars, pipelineVars,
                 backoffVars>>

\* lines 119-122 and what follows the await of the pull: lines 56-58 for
\* the round-robin peer, lines 97-99 in _mergeWithNode
PullCompletes ==
  /\ \E pull \in session.inFlight :
       LET merged == mergeNodeEvents(history[localNodeId], pull.peer)
           random == pull.which # "roundRobin"
       IN /\ history' = [history EXCEPT ![localNodeId] = merged.hist]
          /\ session' =
               [session EXCEPT
                  !.inFlight = @ \ {pull},
                  !.gossipSessions =
                     Append(@, [peer |-> pull.peer,
                                events |-> merged.downloadedEvents]),
                  !.notificationWitnesses =
                     IF pull.which = "notificationPeers"
                     THEN @ ELSE @ \ {pull.peer},
                  !.notificationPeers =
                     IF pull.which = "notificationPeers"
                     THEN @ \ {pull.peer} ELSE @,
                  !.randomMergeCount = IF random THEN @ + 1 ELSE @]
  /\ UNCHANGED <<nodeCount, localNodeId, witnessPeers, gossipCounter,
                 roundRobinWitness, gossipSessions, thrown>>
  /\ UNCHANGED <<peerVars, dagVars, configVars, clientVars, pipelineVars,
                 backoffVars>>

\* lines 62, 67, 73, 80 with lines 88-96: _mergeWithNode starts a pull
\* from a random peer of its Map, if there is one
MergeWithNodeStarts ==
  /\ session.pc \notin {"none", "return"}
  /\ Awaited
  /\ LET peers == IF AttemptMap(session.pc) = "notificationWitnesses"
                  THEN session.notificationWitnesses
                  ELSE session.notificationPeers
     IN IF (IfFew(session.pc) /\ session.randomMergeCount >= 2) \/
           peers = {}
        THEN session' = [session EXCEPT !.pc = AfterAttempt(@)]
        ELSE \E randomPeerId \in peers :
               session' =
                 [session EXCEPT
                    !.pc = AfterAttempt(@),
                    !.inFlight =
                       @ \cup {[peer |-> randomPeerId,
                                which |-> AttemptMap(session.pc)]}]
  /\ UNCHANGED strategyVars
  /\ UNCHANGED <<peerVars, dagVars, configVars, clientVars, pipelineVars,
                 backoffVars>>

\* line 85: return gossipSessions
RunReturns ==
  /\ session.pc = "return"
  /\ Awaited
  /\ gossipSessions' = session.gossipSessions
  /\ session' = NoSession
  /\ UNCHANGED <<nodeCount, localNodeId, witnessPeers, gossipCounter,
                 roundRobinWitness, thrown, history>>
  /\ UNCHANGED <<peerVars, dagVars, configVars, clientVars, pipelineVars,
                 backoffVars>>

NextSessions ==
  \/ RunStart
  \/ PullCompletes
  \/ MergeWithNodeStarts
  \/ RunReturns

SpecSessions == InitStrategy /\ [][NextSessions]_vars

\* C25: during a run at most one pull is in flight, and while it is the
\* sessions the run started before it are complete: their events are
\* downloaded and added to the history of the node.
C25_OnePullInFlight ==
  /\ Cardinality(session.inFlight) <= 1
  /\ \A i \in DOMAIN session.gossipSessions :
       history[session.gossipSessions[i].peer] \subseteq history[localNodeId]
  /\ \A pull \in session.inFlight :
       \A i \in DOMAIN session.gossipSessions :
         session.gossipSessions[i].peer # pull.peer

\* the third pull of a run is in flight after two sessions that downloaded
\* events
C25_Witness ==
  /\ Cardinality(session.inFlight) = 1
  /\ Len(session.gossipSessions) = 2
  /\ \A i \in DOMAIN session.gossipSessions :
       session.gossipSessions[i].events >= 1

(***************************************************************************)
(* PART IX.  fail() and success() called with cursors on one GossipPeer.   *)
(***************************************************************************)
InitCursor ==
  /\ PeerInit
  /\ witnesses \subseteq {Followed}
  /\ \A p \in Peers \ {Followed} : peer[p] = NewPeer(MaxReputation)
  /\ otherZero = 0
  /\ backoffConfig = DefaultBackoff
  /\ IdleInit
  /\ TestClient /\ ClientInit
  /\ AllWitnesses /\ StrategyInit

NextCursor ==
  \/ \E c \in FailCursors, f \in BOOLEAN : Fail(Followed, c, f)
  \/ \E c \in Cursors, m \in BOOLEAN : SuccessStart(Followed, m, c)
  \/ SuccessResume(Followed)
  \/ Tick
  \/ NextBlock /\ witnesses' \subseteq {Followed}

SpecCursor == InitCursor /\ [][NextCursor]_vars

\* the step completes a success({mergeEventsReceived: m, cursor: c}) call
\* on p that the capacity check does not end
SuccessCompletes(p, m, c) ==
  \/ SuccessStart(p, m, c) /\ call'[p].pc = "none"
  \/ /\ SuccessResume(p)
     /\ ~CapacityDrop(call[p].peerCount)
     /\ call[p].mergeEventsReceived = m
     /\ call[p].cursor = c

\* the step is a success() call on p that deletes it for idling
PenaltyDeletes(p) ==
  /\ \E c \in Cursors : SuccessCompletes(p, FALSE, c)
  /\ IdlePenalty(peer[p], HeightAtCallStart(p), FALSE)
  /\ PenaltyComputed(p) < 0
  /\ ~WitnessAtCallStart(p)

\* C31: a success() that does not delete the peer sets consecutiveFailures
\* to 0, removes firstFailure, sets lastPullResult to 'success', lastPullAt
\* to now and the cursor to the cursor of the call; but for the idle
\* penalty backoffUntil is now and the stored peer is a candidate at once;
\* the reputation, if not below 0 in a record that was deleted for it, is
\* at most 1 higher than before the call, whatever it was before the
\* failures.
C31_SuccessResets ==
  [][\A p \in Peers : \A m \in BOOLEAN : \A c \in Cursors :
       (SuccessCompletes(p, m, c) /\ ~PenaltyDeletes(p)) =>
         /\ peer'[p].consecutiveFailures = 0
         /\ peer'[p].firstFailure = NoFirstFailure
         /\ peer'[p].lastPullResult = "success"
         /\ peer'[p].lastPullAt = now
         /\ peer'[p].cursor = c
         /\ peer'[p].requiredBlockHeight =
              IF c # "null" THEN CursorHeight(c)
              ELSE peer[p].requiredBlockHeight
         /\ ~IdlePenalty(peer[p], HeightAtCallStart(p), m) =>
              /\ peer'[p].backoffUntil = now
              /\ stored[p].present => p \in Candidates(stored', now)
         /\ peer[p].reputation >= 0 =>
              peer'[p].reputation <=
                Min(MaxReputation, peer[p].reputation + 1)
         /\ Persisted(p)]_vars

\* a success() with a cursor after a failure: the failure state is reset,
\* the cursor stored, the peer a candidate, the point of the failure lost
C31_Witness ==
  /\ stored[Followed].present
  /\ stored[Followed].peer.sequence = 2
  /\ stored[Followed].peer.lastPullResult = "success"
  /\ stored[Followed].peer.cursor = "c1"
  /\ stored[Followed].peer.consecutiveFailures = 0
  /\ stored[Followed].peer.firstFailure = NoFirstFailure
  /\ stored[Followed].peer.idle.present
  /\ stored[Followed].peer.reputation = MaxReputation - 1
  /\ stored[Followed].peer.backoffUntil = now
  /\ now = MaxTime
  /\ Followed \in Candidates(stored, now)

\* C32: a success() with merge events that the capacity check does not end
\* raises the reputation by exactly 1, to 100 at most, and removes
\* status.idle, whatever the idle record and the block height were.
C32_MergeEventsRaiseReputation ==
  [][\A p \in Peers :
       SuccessCompletes(p, TRUE, "null") =>
         /\ peer'[p].reputation = Min(MaxReputation, peer[p].reputation + 1)
         /\ peer'[p].idle = NoIdle
         /\ Persisted(p)]_vars

\* after a block was added a second success() has left a peer at
\* reputation 100 with no idle record
C32_Witness ==
  /\ blockHeight = 1
  /\ stored[Followed].present
  /\ stored[Followed].peer.sequence = 2
  /\ stored[Followed].peer.lastPullResult = "success"
  /\ stored[Followed].peer.lastPullAt = MaxBackoffTime
  /\ stored[Followed].peer.reputation = MaxReputation
  /\ ~stored[Followed].peer.idle.present

\* C33: a success() with no merge events on a peer that has no idle record
\* sets idle to {time: now, localBlockHeight: the height of the call}; on a
\* peer whose idle record has the height of the call it sets idle.time to
\* now and nothing else of it; neither changes the reputation, however
\* long the peer has idled.
C33_NoPenaltyAtSameHeight ==
  [][\A p \in Peers :
       (/\ SuccessCompletes(p, FALSE, "null")
        /\ \/ ~peer[p].idle.present
           \/ peer[p].idle.localBlockHeight = HeightAtCallStart(p)) =>
         /\ peer'[p].reputation = peer[p].reputation
         /\ peer'[p].idle =
              [present |-> TRUE, time |-> now,
               localBlockHeight |-> HeightAtCallStart(p)]
         /\ peer'[p].backoffUntil = now
         /\ Persisted(p)]_vars

\* a peer idles at the height of its idle record for the whole time of the
\* behaviour and keeps its reputation
C33_Witness ==
  /\ now = MaxBackoffTime
  /\ stored[Followed].present
  /\ stored[Followed].peer.sequence = 2
  /\ stored[Followed].peer.reputation = MaxReputation
  /\ stored[Followed].peer.idle =
       [present |-> TRUE, time |-> now, localBlockHeight |-> blockHeight]
  /\ stored[Followed].peer.backoffUntil = now

\* C34 as stated: the idle penalty leaves the reputation lower by exactly
\* points = floor((now - idle.time) / ceil(maxIdleGracePeriod / 100)),
\* advances idle.time by points * timePerPoint, sets idle.localBlockHeight
\* to the height of the call and backoffUntil to
\* now + min(maxIdle, minIdle * max(1, points)).
C34_PenaltyTakesExactlyPoints ==
  [][\A p \in Peers :
       IdlePenaltyStep(p) =>
         LET timePerPoint ==
               Ceil(backoffConfig.maxIdleGracePeriod, MaxReputation)
             points == (now - peer[p].idle.time) \div timePerPoint
         IN /\ peer'[p].reputation = peer[p].reputation - points
            /\ peer'[p].idle.time = peer[p].idle.time + points * timePerPoint
            /\ peer'[p].idle.localBlockHeight = HeightAtCallStart(p)
            /\ peer'[p].backoffUntil =
                 now + Min(backoffConfig.maxIdle,
                           backoffConfig.minIdle * Max(1, points))]_vars

\* C34 as amended: the idle penalty subtracts exactly points from the
\* reputation, and the call leaves that value but for a current witness
\* below 0, which is left at 0; idle.time advances by points *
\* timePerPoint, so that less than one timePerPoint is carried over and
\* idle.time <= now; idle.localBlockHeight becomes the height of the call
\* and backoffUntil now + min(maxIdle, minIdle * max(1, points)).
C34_IdlePenalty ==
  [][\A p \in Peers :
       IdlePenaltyStep(p) =>
         LET timePerPoint ==
               Ceil(backoffConfig.maxIdleGracePeriod, MaxReputation)
             points == (now - peer[p].idle.time) \div timePerPoint
         IN /\ peer'[p].reputation =
                 IF peer[p].reputation - points < 0 /\ WitnessAtCallStart(p)
                 THEN 0 ELSE peer[p].reputation - points
            /\ peer'[p].idle.time = peer[p].idle.time + points * timePerPoint
            /\ peer'[p].idle.time <= now
            /\ now - peer'[p].idle.time < timePerPoint
            /\ peer'[p].idle.present
            /\ peer'[p].idle.localBlockHeight = HeightAtCallStart(p)
            /\ peer'[p].backoffUntil =
                 now + Min(backoffConfig.maxIdle,
                           backoffConfig.minIdle * Max(1, points))
            /\ PenaltyDeletes(p) \/ Persisted(p)]_vars

\* a witness has idled for 2 points or more while a block was added and
\* is stored with reputation 0
C34_Witness ==
  /\ Followed \in witnesses
  /\ backoffConfig.maxIdleGracePeriod = 100
  /\ stored[Followed].present
  /\ stored[Followed].peer.lastPullResult = "success"
  /\ stored[Followed].peer.lastPullAt = now
  /\ stored[Followed].peer.idle =
       [present |-> TRUE, time |-> now, localBlockHeight |-> 1]
  /\ stored[Followed].peer.backoffUntil = now + 2
  /\ stored[Followed].peer.reputation = 0

(***************************************************************************)
(* PART X.  The capacity check of success(): the calls of the GossipPeers  *)
(* with no protocol violation among the failures.                          *)
(***************************************************************************)
NextCapacity ==
  \/ \E p \in Peers : Fail(p, "undefined", FALSE)
  \/ \E p \in Peers, m \in BOOLEAN : SuccessStart(p, m, "null")
  \/ \E p \in Peers : SuccessResume(p)
  \/ Tick
  \/ NextBlock

SpecCapacity == Init /\ [][NextCapacity]_vars

\* C35: success() on a peer that is no witness and has reputation 0 awaits
\* count({maxReputation: 0}); at a count of 100 or more it removes the
\* peer, merge events received or not, and changes nothing else; a call
\* with a lower count, on a witness or on a peer of another reputation
\* removes the peer for idling below 0 only.
C35_CapacityCheck ==
  [][\A p \in Peers :
       /\ \A m \in BOOLEAN :
            SuccessStart(p, m, "null") =>
              /\ call'[p].pc = "count"
                   <=> (p \notin witnesses /\ peer[p].reputation = 0)
              /\ call'[p].pc = "count" =>
                   /\ call'[p].peerCount = PeersCount(stored, otherZero, 0)
                   /\ call'[p].mergeEventsReceived = m
                   /\ UNCHANGED <<peer, stored, deleted>>
       /\ (SuccessResume(p) /\ call[p].peerCount >= 100) =>
            /\ deleted'[p]
            /\ ~stored'[p].present
            /\ \A q \in Peers \ {p} : stored'[q] = stored[q]
            /\ peer' = peer
       /\ \A m \in BOOLEAN :
            (/\ \/ SuccessStart(p, m, "null") /\ call'[p].pc = "none"
                \/ SuccessResume(p) /\ call[p].peerCount < 100
             /\ ~PenaltyDeletes(p)) =>
              /\ deleted'[p] = deleted[p]
              /\ stored'[p].present = stored[p].present]_vars

\* a success() has removed a peer of reputation 0 whose record is as it was
\* constructed, with 100 rows of reputation 0
C35_Witness ==
  \E p \in Peers :
    /\ deleted[p] /\ ~stored[p].present
    /\ otherZero = MaxZeroPeers - 1
    /\ peer[p] = NewPeer(0)
    /\ call[p] = NoCall
    /\ ncalls = 1
    /\ stored[CHOOSE q \in Peers : q # p].present

(***************************************************************************)
(* PART XI.  A peer that keeps idling: success() with no merge events is   *)
(* called on one GossipPeer for ever.  success() uses the differences of   *)
(* times and the equality of block heights only, so each session is taken  *)
(* in its own frame of reference: times are kept relative to the time of   *)
(* the last session and block heights relative to its height, and the      *)
(* sequence, which success() only increments, is not followed.             *)
(***************************************************************************)
\* the record with its times relative to t and its height relative to the
\* height of the session
Relative(rec, t) ==
  [rec EXCEPT !.backoffUntil = @ - t,
              !.lastPullAt = @ - t,
              !.idle.time = @ - t,
              !.idle.localBlockHeight = 0,
              !.sequence = 0]

\* the peer has no reputation left or is removed
NoReputationLeft == deleted[Followed] \/ peer[Followed].reputation = 0

\* success({mergeEventsReceived: false}) on the followed peer, lines
\* 167-241, for a peer that passes line 147 without the capacity check
IdleSession ==
  /\ ~NoReputationLeft
  /\ LET isWitness == Followed \in witnesses
         r1 == SuccessStatus(peer[Followed], now, "null")
         r2 == SuccessReputation(r1, now, blockHeight, FALSE)
         penalty == IdlePenalty(r1, blockHeight, FALSE)
     IN IF SuccessDeletes(r2, penalty, isWitness)
        THEN /\ peer' = [peer EXCEPT ![Followed] = Relative(r2, now)]
             /\ GossipPeerDelete(Followed)
        ELSE LET r3 == [r2 EXCEPT !.reputation =
                                      IF penalty /\ @ < 0 THEN 0 ELSE @]
             IN /\ peer' = [peer EXCEPT ![Followed] = Relative(r3, now)]
                /\ stored' = PeersUpdate(stored, Followed, Relative(r3, now))
                /\ UNCHANGED deleted
  /\ now' = 0
  /\ blockHeight' = 0
  /\ UNCHANGED <<witnesses, otherZero, otherPositive, call, ncalls>>
  /\ UNCHANGED <<dagVars, configVars, clientVars, strategyVars,
                 pipelineVars, sessionVars, backoffVars>>

\* a block is added; the followed peer may become or cease to be a witness
IdleNextBlock == NextBlock /\ witnesses' \subseteq {Followed}

InitIdle ==
  /\ PeerInit
  /\ witnesses \subseteq {Followed}
  /\ \A p \in Peers \ {Followed} : peer[p] = NewPeer(MaxReputation)
  /\ otherZero = 0
  /\ backoffConfig \in
       {[DefaultBackoff EXCEPT !.maxIdleGracePeriod = i] : i \in {100, 150}}
  /\ IdleInit
  /\ TestClient /\ ClientInit
  /\ AllWitnesses /\ StrategyInit

NextIdle ==
  \/ IdleSession
  \/ Elapse
  \/ IdleNextBlock

\* the peer keeps returning success, time keeps passing between sessions
\* and blocks keep being added
SpecIdle ==
  /\ InitIdle /\ [][NextIdle]_vars
  /\ WF_vars(IdleSession) /\ WF_vars(Elapse) /\ WF_vars(IdleNextBlock)

PointTaken ==
  /\ IdleSession
  /\ deleted'[Followed] \/
       peer'[Followed].reputation < peer[Followed].reputation

StatusConsistent(rec) ==
  /\ rec.consecutiveFailures >= 0
  /\ rec.firstFailure.present <=> rec.consecutiveFailures > 0
  /\ rec.idle.present => rec.consecutiveFailures = 0

\* C38: in every state reached by fail() and success() calls from records
\* with consecutiveFailures = 0 and no firstFailure, the record of a peer,
\* in memory and stored, has firstFailure iff consecutiveFailures > 0 and
\* has idle only with consecutiveFailures = 0; no success() on a failing
\* peer takes the idle-penalty branch.
C38_StatusConsistent ==
  /\ [](\A p \in Peers :
          /\ StatusConsistent(peer[p])
          /\ stored[p].present => StatusConsistent(stored[p].peer))
  /\ [][\A p \in Peers :
          peer[p].consecutiveFailures > 0 => ~IdlePenaltyStep(p)]_vars

\* the first success() after a failure of an idling peer has started a new
\* idle record at the time of the call, with the point of the failure lost
C38_Witness ==
  \E p \in Peers :
    /\ stored[p].present
    /\ blockHeight = 1
    /\ now = MaxTime
    /\ stored[p].peer.lastPullResult = "success"
    /\ stored[p].peer.consecutiveFailures = 0
    /\ ~stored[p].peer.firstFailure.present
    /\ stored[p].peer.idle =
         [present |-> TRUE, time |-> now, localBlockHeight |-> 1]
    /\ stored[p].peer.reputation = MaxReputation - 1
    /\ stored[p].peer.sequence = 2

\* the node ids of the sessions of a run, in order
SessionPeers(sessions) == [i \in DOMAIN sessions |-> sessions[i].peer]

\* no node id occurs twice
PairwiseDistinct(ids) ==
  \A i, j \in DOMAIN ids : i # j => ids[i] # ids[j]

\* C39: the node ids in the gossipSessions a run of the round-robin
\* strategy returns are pairwise distinct: no peer is gossiped with twice
\* in one run.
C39_NoPeerTwice ==
  thrown = "none" => PairwiseDistinct(SessionPeers(gossipSessions))

\* a run of three sessions whose random sessions are both with witnesses:
\* lines 62 and 80 drew from notificationWitnesses, which had lost the
\* round-robin witness and then the witness of line 62
C39_Witness ==
  /\ thrown = "none"
  /\ Len(gossipSessions) = 3
  /\ gossipSessions[1].peer = roundRobinWitness
  /\ gossipSessions[2].peer \in witnessPeers
  /\ gossipSessions[3].peer \in witnessPeers

\* the number of nodes the random sessions of a run can be with: the
\* notifying witnesses other than the round-robin witness and the notifying
\* peers that are no witnesses
Notifying(chosen, notificationWitnesses, notificationPeers) ==
  Cardinality(notificationWitnesses \ {chosen}) +
  Cardinality(notificationPeers)

====
